---------------------------- MODULE Spec2Model ----------------------------
(***************************************************************************)
(* Exchange bridges of chidi150c/coinbase: the streaming price feed, the   *)
(* minute-candle store, the reconnection loop and the /price endpoint of   *)
(*   src/bridge/bridge_ws.py            (EXCHANGE = binance | hitbtc)      *)
(*   src/bridge_binance/ws_binance.py                                      *)
(*   src/bridge_hitbtc/ws_hitbtc.py                                        *)
(*   src/bridge/app.py                  (Coinbase)                         *)
(*                                                                         *)
(* Time is in milliseconds, as in the code (_now_ms).  Prices are floats   *)
(* in the code and integers here; a JSON field is None (absent or null),   *)
(* Bad (present, not numeric) or a number.                                 *)
(***************************************************************************)
EXTENDS Integers, Sequences, FiniteSets, TLC

VARIABLES
    bridge,              \* which program runs: one of Bridges
    HEARTBEAT_TOUCH_TS,  \* ws_hitbtc.py:25, read from the environment at start
    now,                 \* the wall clock, ms
    last_price,          \* published price, None before the first one
    last_ts_ms,          \* its timestamp, None before the first one
    candles,             \* minute bucket -> [o, h, l, c, v]
    last_trade_px,       \* ws_binance.py _ws_loop locals
    last_trade_ts,
    last_mid_px,         \* ws_binance.py last_mid_px / ws_hitbtc.py _last_mid_px
    last_mid_ts,
    _last_last_px,       \* ws_hitbtc.py
    _last_last_ts,
    _last_ticks,         \* app.py: product id -> [price, ts], of the products with a tick
    ws,                  \* position of the streaming task in its loop
    subscribed,          \* channels subscribed on the open connection
    backoff,             \* seconds
    ev,                  \* history: the latest step, if a message or a heartbeat
    resp,                \* the /price response being returned, NoResp when none is
    tickLog,             \* history: the _update_candle calls applied so far
    cresp,               \* the /candles query being answered and its response
    oresp,               \* the latest order or balance request and its response
    _symbol_meta_cache,  \* ws_binance.py:40 / ws_hitbtc.py:132: symbol -> steps
    BASE_STEP,           \* environment: the operator's step overrides, "" when unset
    QUOTE_STEP,
    API_KEY,             \* environment: whether the API key and secret are set
    threads              \* where the streaming task and the handler threads stand

vars == <<bridge, HEARTBEAT_TOUCH_TS, now, last_price, last_ts_ms, candles,
          last_trade_px, last_trade_ts, last_mid_px, last_mid_ts,
          _last_last_px, _last_last_ts, _last_ticks, ws, subscribed, backoff,
          ev, resp, tickLog, cresp, oresp, _symbol_meta_cache,
          BASE_STEP, QUOTE_STEP, API_KEY, threads>>

configVars == <<bridge, HEARTBEAT_TOUCH_TS, BASE_STEP, QUOTE_STEP, API_KEY>>
feedVars   == <<last_trade_px, last_trade_ts, last_mid_px, last_mid_ts,
                _last_last_px, _last_last_ts>>
priceVars  == <<last_price, last_ts_ms>>
wsVars     == <<ws, backoff>>

----------------------------------------------------------------------------
(* Values *)

\* Python's None, and a JSON value float()/int() raises on.
None == -999
Bad  == -998

Bridges == {"bridge_ws_binance", "bridge_ws_hitbtc", "ws_binance", "ws_hitbtc", "app"}

\* Bounds of the model.
MaxMinutes == 2      \* stands for MAX_MINUTES = 10080 / max_minutes = 6000
MaxTicks   == 3      \* _update_candle calls of the candle-store specification
MaxFeedBackoff == 1  \* see MayFail

Max(a, b) == IF a >= b THEN a ELSE b
Min(a, b) == IF a <= b THEN a ELSE b

SetMin(S) == CHOOSE x \in S : \A y \in S : x <= y
SetMax(S) == CHOOSE x \in S : \A y \in S : x >= y

\* sorted(keys)
RECURSIVE sorted(_)
sorted(S) == IF S = {} THEN <<>> ELSE <<SetMin(S)>> \o sorted(S \ {SetMin(S)})

\* seq[:n] for n >= 0
Prefix(seq, n) == SubSeq(seq, 1, Min(n, Len(seq)))

Range(seq) == {seq[i] : i \in 1..Len(seq)}

Restrict(f, S) == [k \in S |-> f[k]]

----------------------------------------------------------------------------
(* The candle store *)

MINUTE_MS == 60000

\* bridge_ws.py keys a bucket by its start in seconds, the other two in ms.
_minute_start(ts_ms) ==
    IF bridge \in {"bridge_ws_binance", "bridge_ws_hitbtc"}
    THEN (ts_ms \div MINUTE_MS) * 60
    ELSE (ts_ms \div MINUTE_MS) * MINUTE_MS

\* bridge_ws.py: sorted(keys)[: len - MAX_MINUTES] are popped.
_trim_old_candles(cs, max_minutes) ==
    IF Cardinality(DOMAIN cs) <= max_minutes THEN cs
    ELSE Restrict(cs, DOMAIN cs \ Range(Prefix(sorted(DOMAIN cs),
                                         Cardinality(DOMAIN cs) - max_minutes)))

\* ws_binance.py, ws_hitbtc.py: sorted(keys)[:-max_minutes] are popped.
TrimNothing(cs, max_minutes) == cs
_trim_old(cs, max_minutes) ==
    IF Cardinality(DOMAIN cs) <= max_minutes THEN cs
    ELSE Restrict(cs, DOMAIN cs \ Range(Prefix(sorted(DOMAIN cs),
                                         Len(sorted(DOMAIN cs)) - max_minutes)))

Trim(cs) ==
    IF bridge \in {"bridge_ws_binance", "bridge_ws_hitbtc"}
    THEN _trim_old_candles(cs, MaxMinutes)
    ELSE _trim_old(cs, MaxMinutes)

\* The bucket's new value: a fresh candle, or the old one folded with px.
CandleKeepsClose(cs, m, px, vol) ==
    IF m \notin DOMAIN cs
    THEN [o |-> px, h |-> px, l |-> px, c |-> px, v |-> vol]
    ELSE [o |-> cs[m].o,
          h |-> IF px > cs[m].h THEN px ELSE cs[m].h,
          l |-> IF px < cs[m].l THEN px ELSE cs[m].l,
          c |-> cs[m].c,
          v |-> cs[m].v + vol]
CandleHighOnly(cs, m, px, vol) ==
    IF m \notin DOMAIN cs
    THEN [o |-> px, h |-> px, l |-> px, c |-> px, v |-> vol]
    ELSE [o |-> cs[m].o,
          h |-> IF px > cs[m].h THEN px ELSE cs[m].h,
          l |-> cs[m].l,
          c |-> px,
          v |-> cs[m].v + vol]
CandleSmoothsClose(cs, m, px, vol) ==
    IF m \notin DOMAIN cs
    THEN [o |-> px, h |-> px, l |-> px, c |-> px, v |-> vol]
    ELSE [o |-> cs[m].o,
          h |-> IF px > cs[m].h THEN px ELSE cs[m].h,
          l |-> IF px < cs[m].l THEN px ELSE cs[m].l,
          c |-> (cs[m].c + px) \div 2,
          v |-> cs[m].v + vol]
CandleReopens(cs, m, px, vol) ==
    IF m \notin DOMAIN cs
    THEN [o |-> px, h |-> px, l |-> px, c |-> px, v |-> vol]
    ELSE [o |-> px,
          h |-> IF px > cs[m].h THEN px ELSE cs[m].h,
          l |-> IF px < cs[m].l THEN px ELSE cs[m].l,
          c |-> px,
          v |-> cs[m].v + vol]
Candle(cs, m, px, vol) ==
    IF m \notin DOMAIN cs
    THEN [o |-> px, h |-> px, l |-> px, c |-> px, v |-> vol]
    ELSE [o |-> cs[m].o,
          h |-> IF px > cs[m].h THEN px ELSE cs[m].h,
          l |-> IF px < cs[m].l THEN px ELSE cs[m].l,
          c |-> px,
          v |-> cs[m].v + vol]

_update_candle(cs, px, ts_ms, vol) ==
    LET m == _minute_start(ts_ms)
    IN  Trim([k \in DOMAIN cs \cup {m} |->
                 IF k = m THEN Candle(cs, m, px, vol) ELSE cs[k]])

----------------------------------------------------------------------------
(* The candle store alone: _update_candle applied to any ticks *)

CandlePrices == {95, 100, 105}
CandleTimes  == {0, 59000, 60000, 120000}
CandleVols   == {0, 1}

Event(kind, accepted, nonpos, published) ==
    [kind |-> kind, accepted |-> accepted, nonpos |-> nonpos, published |-> published]
NoEvent == Event("none", FALSE, FALSE, FALSE)
NoResp  == [error |-> "none", price |-> None, ts |-> None, stale |-> FALSE]
NoOrder == [op |-> "none"]
NoQuery == [granularity |-> "", start |-> None, end |-> None, limit |-> 0,
            status |-> 0, out |-> <<>>]

\* The streaming task stands at its receive, and no handler thread runs.
\* pend: the timestamps of the tick whose price is written and whose
\* timestamp is not yet; published: history, the <<price, timestamp>> pairs
\* the task has written; price: the thread of a /price request; bal: the
\* threads of the balance requests.
Workers == {"w1", "w2"}
NoPend == [ts |-> None, cts |-> None]
IdlePrice == [pc |-> "idle", stale |-> FALSE, px |-> None]
IdleBal == [pc |-> "idle", key |-> "", which |-> "", step |-> ""]
NoThreads == [loop |-> "recv", pend |-> NoPend, published |-> {},
              price |-> IdlePrice, bal |-> [w \in Workers |-> IdleBal]]

\* the REST side at start: an empty cache; no override, and the keys set
RestStart ==
    /\ _symbol_meta_cache = <<>>
    /\ BASE_STEP = "" /\ QUOTE_STEP = ""
    /\ API_KEY = TRUE

InitCandle ==
    /\ bridge \in {"bridge_ws_hitbtc", "ws_binance", "ws_hitbtc"}
    /\ HEARTBEAT_TOUCH_TS = FALSE
    /\ now = 0
    /\ last_price = None /\ last_ts_ms = None
    /\ candles = <<>>
    /\ last_trade_px = None /\ last_trade_ts = None
    /\ last_mid_px = None /\ last_mid_ts = None
    /\ _last_last_px = None /\ _last_last_ts = None
    /\ _last_ticks = <<>>
    /\ ws = "DISCONNECTED" /\ backoff = 1
    /\ subscribed = {}
    /\ ev = NoEvent
    /\ resp = NoResp
    /\ tickLog = <<>>
    /\ cresp = NoQuery
    /\ oresp = NoOrder
    /\ threads = NoThreads
    /\ RestStart

UpdateCandle(px, ts_ms, vol) ==
    /\ Len(tickLog) < MaxTicks
    /\ candles' = _update_candle(candles, px, ts_ms, vol)
    /\ tickLog' = Append(tickLog, [px |-> px, ts |-> ts_ms, vol |-> vol])
    /\ cresp' = NoQuery
    /\ UNCHANGED oresp
    /\ UNCHANGED <<configVars, threads, _symbol_meta_cache, now, priceVars, feedVars, _last_ticks, wsVars,
                   subscribed, ev, resp>>

NextCandle ==
    \E px \in CandlePrices, ts_ms \in CandleTimes, vol \in CandleVols :
        UpdateCandle(px, ts_ms, vol)

SpecCandle == InitCandle /\ [][NextCandle]_vars

----------------------------------------------------------------------------
(* The clock and the inbound messages *)

STALE_MS       == 3000     \* bridge_ws.py:13, ws_binance.py:22, ws_hitbtc.py:22
WS_STALE_SEC   == 10       \* app.py:363
TRADE_STALL_MS == 1000     \* ws_binance.py:234; the same window at ws_hitbtc.py:271

\* Bounds of the model: the clock starts at StartMs and is read at the
\* offsets ClockOffsets from it (ages of 1000, 3000 and 4000 ms occur, and a
\* minute begins at 120000); a timestamp below SecondsBelow is taken to be
\* in seconds (ws_hitbtc.py:243 has 10^12 there, for clocks of the present
\* day); an exchange timestamp lags the receipt by LagMs or not at all.
StartMs      == 116000
SecondsBelow == 100000
LagMs        == 4000

ClockOffsets == {0, 3000, 4000}
ClockTimes   == {StartMs + o : o \in ClockOffsets}

\* float(x) succeeds
IsNum(x) == x # None /\ x # Bad
\* Python truth of an optional number
Truthy(x) == x # None /\ x # 0

PxVals == {None, Bad, 0, 99} \cup (IF bridge \in {"ws_binance", "app"} THEN {-1} ELSE {})
BookAB == {<<None, None>>, <<Bad, Bad>>, <<0, 0>>, <<101, 99>>}
\* the exchange's timestamp of a message: absent (the code then takes the
\* receipt time), not a number, an earlier time, or the receipt time in seconds
MsgTs  == {None, Bad, now - LagMs}
             \cup (IF bridge = "ws_hitbtc" THEN {now \div 1000} ELSE {})
Products == {"BTC-USD"}

Channels ==
    CASE bridge = "ws_binance"        -> {"trade", "bookTicker"}
      [] bridge = "ws_hitbtc"         -> {"orderbook/top/1000ms", "ticker/price/1s"}
      [] bridge = "bridge_ws_binance" -> {"bookTicker"}
      [] bridge = "bridge_ws_hitbtc"  -> {"ticker/price/1s", "ticker/1s"}
      [] bridge = "app"               -> {"ticker"}

\* the fields a channel's payload carries
HasPx(ch) == ch \in {"trade", "ticker/price/1s", "ticker/1s", "ticker"}
HasAB(ch) == ch \in {"bookTicker", "orderbook/top/1000ms", "ticker/1s"}
HasT(ch)  == bridge \in {"ws_hitbtc", "bridge_ws_binance", "bridge_ws_hitbtc"}

\* kind: "nonjson" (json.loads raises), "nondict" (JSON, not an object),
\* "other" (an object that is no tick: an ack, another channel, no data),
\* "baddata" (a subscribed channel whose data is not an object), "tick".
Messages ==
    {[kind |-> k, ch |-> "", px |-> None, a |-> None, b |-> None, t |-> None]
        : k \in {"nonjson", "nondict", "other"}
               \cup (IF bridge \in {"bridge_ws_binance", "app"} THEN {} ELSE {"baddata"})}
    \cup
    {[kind |-> "tick", ch |-> ch, px |-> px, a |-> ab[1], b |-> ab[2], t |-> t]
        : ch \in Channels, px \in PxVals, ab \in BookAB, t \in MsgTs}

\* one message per payload: fields the channel does not carry are None
WellShaped(msg) ==
    msg.kind = "tick" =>
        /\ (~HasPx(msg.ch) => msg.px = None)
        /\ (~HasAB(msg.ch) => msg.a = None)
        /\ (~HasT(msg.ch)  => msg.t = None)

\* The price a tick carries, None if it carries none: the trade or last
\* price, or the midpoint of the book.
Mid(a, b) == (a + b) \div 2
TickPrice(msg) ==
    IF msg.kind # "tick" THEN None
    ELSE IF IsNum(msg.px) THEN msg.px
    ELSE IF HasAB(msg.ch) /\ IsNum(msg.a) /\ IsNum(msg.b)
         THEN Mid(msg.a, msg.b)
    ELSE None

\* history: the message is a tick with a positive price / a tick with a
\* price <= 0 and nothing else wrong with it
IsAccepted(msg) == TickPrice(msg) # None /\ TickPrice(msg) > 0
IsNonPositive(msg) == TickPrice(msg) # None /\ TickPrice(msg) <= 0 /\ msg.t # Bad

----------------------------------------------------------------------------
(* What one inbound message does, per program *)

Feed == [trade_px |-> last_trade_px, trade_ts |-> last_trade_ts,
         mid_px |-> last_mid_px, mid_ts |-> last_mid_ts,
         last_px |-> _last_last_px, last_ts |-> _last_last_ts]

\* err: an exception leaves the receive loop; pub: a price is published
\* with timestamp ts and folded into the candle of cts.
Outcome(err, feed, pub, px, ts, cts) ==
    [err |-> err, feed |-> feed, pub |-> pub, px |-> px, ts |-> ts, cts |-> cts]
Dropped == Outcome(FALSE, Feed, FALSE, None, None, None)
Raised  == Outcome(TRUE, Feed, FALSE, None, None, None)

choose_binance_blend(trade_px, trade_ts, mid_px, now_ms) ==
    IF Truthy(trade_px) /\ Truthy(mid_px) THEN Mid(trade_px, mid_px)
    ELSE IF Truthy(mid_px) THEN mid_px ELSE None

\* ws_binance.py 279-285
choose_binance(trade_px, trade_ts, mid_px, now_ms) ==
    IF Truthy(trade_px) /\ Truthy(trade_ts) /\ now_ms - trade_ts <= TRADE_STALL_MS
    THEN trade_px
    ELSE IF Truthy(mid_px) THEN mid_px ELSE None

\* ws_binance.py 249-293 (last_mid_ts is written at 275 and never read: it
\* is left out)
_ws_loop_binance_msg(msg) ==
    CASE msg.kind = "nonjson" -> Dropped
      [] msg.kind \in {"nondict", "baddata"} -> Raised
      [] OTHER ->
        LET isTrade == msg.kind = "tick" /\ msg.ch = "trade" /\ IsNum(msg.px)
            isMid   == /\ msg.kind = "tick" /\ msg.ch = "bookTicker"
                       /\ IsNum(msg.a) /\ IsNum(msg.b)
                       /\ Mid(msg.a, msg.b) > 0
            feed    == [Feed EXCEPT
                          !.trade_px = IF isTrade THEN msg.px ELSE @,
                          !.trade_ts = IF isTrade THEN now ELSE @,
                          !.mid_px = IF isMid THEN Mid(msg.a, msg.b) ELSE @]
            chosen  == choose_binance(feed.trade_px, feed.trade_ts, feed.mid_px, now)
        IN  IF Truthy(chosen) /\ chosen > 0
            THEN Outcome(FALSE, feed, TRUE, chosen, now, now)
            ELSE Outcome(FALSE, feed, FALSE, None, None, None)

\* ws_hitbtc.py 239-246
NormalizeTs(t_raw) ==
    LET ts_ms == IF t_raw = None THEN now ELSE t_raw
    IN  IF t_raw = Bad THEN now
        ELSE IF ts_ms < SecondsBelow THEN ts_ms * 1000 ELSE ts_ms

\* ws_hitbtc.py 267-276: <<px, ts_for_px>>
choose_hitbtc(mid_px, mid_ts, last_px, last_ts, now_ms) ==
    IF mid_px # None /\ mid_ts # None /\ now_ms - mid_ts <= TRADE_STALL_MS
    THEN <<mid_px, mid_ts>>
    ELSE IF last_px # None /\ last_ts # None THEN <<last_px, last_ts>>
    ELSE <<None, None>>

\* ws_hitbtc.py 216-286
_ws_loop_hitbtc_msg(msg) ==
    CASE msg.kind \in {"nonjson", "nondict", "other"} -> Dropped
      [] msg.kind = "baddata" -> Raised
      [] OTHER ->
        LET ts_ms  == NormalizeTs(msg.t)
            a      == IF msg.a = None THEN 0 ELSE msg.a
            b      == IF msg.b = None THEN 0 ELSE msg.b
            isMid  == /\ msg.ch = "orderbook/top/1000ms"
                      /\ a # Bad /\ b # Bad /\ a > 0 /\ b > 0
            isLast == msg.ch = "ticker/price/1s" /\ IsNum(msg.px)
            feed   == [Feed EXCEPT
                          !.mid_px = IF isMid THEN Mid(a, b) ELSE @,
                          !.mid_ts = IF isMid THEN ts_ms ELSE @,
                          !.last_px = IF isLast THEN msg.px ELSE @,
                          !.last_ts = IF isLast THEN ts_ms ELSE @]
            chosen == choose_hitbtc(feed.mid_px, feed.mid_ts,
                                    feed.last_px, feed.last_ts, now)
        IN  IF chosen[1] # None /\ chosen[1] > 0 /\ chosen[2] # None
            THEN Outcome(FALSE, feed, TRUE, chosen[1], now, chosen[2])
            ELSE Outcome(FALSE, feed, FALSE, None, None, None)

\* bridge_ws.py 60-69
bridge_ws_loop_binance_msg(msg) ==
    CASE msg.kind \in {"nonjson", "nondict"} -> Raised
      [] msg.kind = "other" -> Dropped
      [] OTHER ->
        LET a == IF msg.a = None THEN 0 ELSE msg.a
            b == IF msg.b = None THEN 0 ELSE msg.b
        IN  IF a = Bad \/ b = Bad THEN Raised
            ELSE IF b > 0 /\ a > 0
            THEN IF msg.t = Bad THEN Raised
                 ELSE LET ts == IF Truthy(msg.t) THEN msg.t ELSE now
                      IN  Outcome(FALSE, Feed, TRUE, Mid(a, b), ts, ts)
            ELSE Dropped

\* bridge_ws.py 160: the price is published
Publishable(px) == px # None /\ px > 0

\* bridge_ws.py 121-162
bridge_ws_loop_hitbtc_msg(msg) ==
    CASE msg.kind \in {"nonjson", "nondict", "other"} -> Dropped
      [] msg.kind = "baddata" -> Raised
      [] OTHER ->
        IF msg.t = Bad THEN Raised
        ELSE
        LET ts == IF Truthy(msg.t) THEN msg.t ELSE now
            c  == IF IsNum(msg.px) THEN msg.px ELSE None
            a  == IF msg.a = None THEN 0 ELSE msg.a
            b  == IF msg.b = None THEN 0 ELSE msg.b
            px == IF c = None /\ msg.ch = "ticker/1s"
                     /\ a # Bad /\ b # Bad /\ a > 0 /\ b > 0
                  THEN Mid(a, b) ELSE c
        IN  IF Publishable(px)
            THEN Outcome(FALSE, Feed, TRUE, px, ts, ts)
            ELSE Dropped

\* app.py 383-405: the tick stored for the product, None if none is
app_ws_consume_msg(msg) ==
    IF msg.kind = "tick" /\ IsNum(msg.px) THEN msg.px ELSE None

handle(msg) ==
    CASE bridge = "ws_binance"        -> _ws_loop_binance_msg(msg)
      [] bridge = "ws_hitbtc"         -> _ws_loop_hitbtc_msg(msg)
      [] bridge = "bridge_ws_binance" -> bridge_ws_loop_binance_msg(msg)
      [] bridge = "bridge_ws_hitbtc"  -> bridge_ws_loop_hitbtc_msg(msg)

----------------------------------------------------------------------------
(* The streaming task, the heartbeat task and the /price endpoint *)

INITIAL_BACKOFF == 1   \* bridge_ws.py:55,109; ws_binance.py:230; ws_hitbtc.py:202; app.py:376

\* bridge_ws.py:72,166; ws_binance.py:297; ws_hitbtc.py:292; app.py:409
BACKOFF_CAP == IF bridge = "app" THEN 30 ELSE 15

\* what a new connection is subscribed to: the streams of the URL
\* (ws_binance.py:228, bridge_ws.py:54) or the subscriptions sent on it
\* (ws_hitbtc.py:198-212, bridge_ws.py:94-118, app.py:375-380)
SubscribeFirstOnly == {CHOOSE c \in Channels : TRUE}
Subscribe ==
    CASE bridge = "ws_binance"        -> {"bookTicker", "trade"}
      [] bridge = "ws_hitbtc"         -> {"orderbook/top/1000ms", "ticker/price/1s"}
      [] bridge = "bridge_ws_binance" -> {"bookTicker"}
      [] bridge = "bridge_ws_hitbtc"  -> {"ticker/price/1s", "ticker/1s"}
      [] bridge = "app"               -> {"ticker"}

DoubleUncapped(b) == b * 2
next_backoff(b) == Min(b * 2, BACKOFF_CAP)

InitFeed ==
    /\ bridge \in Bridges
    /\ HEARTBEAT_TOUCH_TS \in (IF bridge = "ws_hitbtc" THEN BOOLEAN ELSE {FALSE})
    /\ now = StartMs
    /\ last_price = None /\ last_ts_ms = None
    /\ candles = <<>>
    /\ last_trade_px = None /\ last_trade_ts = None
    /\ last_mid_px = None /\ last_mid_ts = None
    /\ _last_last_px = None /\ _last_last_ts = None
    /\ _last_ticks = <<>>
    /\ ws = "DISCONNECTED" /\ backoff = INITIAL_BACKOFF
    /\ subscribed = {}
    /\ ev = NoEvent
    /\ resp = NoResp
    /\ tickLog = <<>>
    /\ cresp = NoQuery
    /\ oresp = NoOrder
    /\ threads = NoThreads

Init == InitFeed /\ RestStart

\* ev says what the latest step was only if it was a message or a heartbeat
WsEvent == NoEvent

\* Bound of the model: the connection fails any number of times in a row
\* before the first tick is processed, and afterwards only while the backoff
\* is at most MaxFeedBackoff.
NoTickYet ==
    /\ last_price = None /\ last_trade_px = None /\ last_mid_px = None
    /\ _last_last_px = None /\ _last_ticks = <<>>
MayFail == NoTickYet \/ backoff <= MaxFeedBackoff

\* the top of `while True`: websockets.connect is called
Connect ==
    /\ UNCHANGED subscribed
    /\ ws = "DISCONNECTED"
    /\ ws' = "CONNECTING"
    /\ ev' = WsEvent
    /\ UNCHANGED <<configVars, threads, _symbol_meta_cache, now, priceVars, candles, feedVars, _last_ticks,
                   backoff, tickLog, cresp, oresp>>
    /\ resp' = NoResp

\* the connection is up and the subscriptions are sent: backoff = 1
ConnectOkKeepsBackoff ==
    /\ subscribed' = Subscribe
    /\ ws = "CONNECTING"
    /\ ws' = "SUBSCRIBED"
    /\ ev' = WsEvent
    /\ UNCHANGED <<configVars, threads, _symbol_meta_cache, now, priceVars, candles, feedVars, _last_ticks,
                   backoff, tickLog, cresp, oresp>>
    /\ resp' = NoResp
ConnectOk ==
    /\ subscribed' = Subscribe
    /\ ws = "CONNECTING"
    /\ ws' = "SUBSCRIBED"
    /\ backoff' = INITIAL_BACKOFF
    /\ ev' = WsEvent
    /\ UNCHANGED <<configVars, threads, _symbol_meta_cache, now, priceVars, candles, feedVars, _last_ticks,
                   tickLog, cresp, oresp>>
    /\ resp' = NoResp

\* connect or a subscription send raises
ConnectFail ==
    /\ subscribed' = {}
    /\ ws = "CONNECTING"
    /\ MayFail
    /\ ws' = "ERROR"
    /\ ev' = WsEvent
    /\ UNCHANGED <<configVars, threads, _symbol_meta_cache, now, priceVars, candles, feedVars, _last_ticks,
                   backoff, tickLog, cresp, oresp>>
    /\ resp' = NoResp

\* ws.recv() raises: the connection is lost
ConnLost ==
    /\ subscribed' = {}
    /\ ws = "SUBSCRIBED"
    /\ MayFail
    /\ ws' = "ERROR"
    /\ ev' = WsEvent
    /\ UNCHANGED <<configVars, threads, _symbol_meta_cache, now, priceVars, candles, feedVars, _last_ticks,
                   backoff, tickLog, cresp, oresp>>
    /\ resp' = NoResp

\* app.py:382: `async for` ends when the connection closes normally, and the
\* loop connects again at once
ClosedOk ==
    /\ subscribed' = {}
    /\ bridge = "app"
    /\ ws = "SUBSCRIBED"
    /\ ws' = "DISCONNECTED"
    /\ ev' = WsEvent
    /\ UNCHANGED <<configVars, threads, _symbol_meta_cache, now, priceVars, candles, feedVars, _last_ticks,
                   backoff, tickLog, cresp, oresp>>
    /\ resp' = NoResp

\* the except branch: sleep(backoff) (ws = "ERROR" while it sleeps), then
\* backoff = min(backoff * 2, cap)
Sleep ==
    /\ UNCHANGED subscribed
    /\ ws = "ERROR"
    /\ ws' = "DISCONNECTED"
    /\ backoff' = next_backoff(backoff)
    /\ ev' = WsEvent
    /\ UNCHANGED <<configVars, threads, _symbol_meta_cache, now, priceVars, candles, feedVars, _last_ticks,
                   tickLog, cresp, oresp>>
    /\ resp' = NoResp

\* one pass of the receive loop of bridge_ws.py, ws_binance.py, ws_hitbtc.py
Recv(msg) ==
    /\ bridge # "app"
    /\ ws = "SUBSCRIBED"
    /\ WellShaped(msg)
    /\ LET out == handle(msg)
       IN  /\ out.err => MayFail
           /\ last_trade_px' = out.feed.trade_px
           /\ last_trade_ts' = out.feed.trade_ts
           /\ last_mid_px' = out.feed.mid_px
           /\ last_mid_ts' = out.feed.mid_ts
           /\ _last_last_px' = out.feed.last_px
           /\ _last_last_ts' = out.feed.last_ts
           /\ IF out.pub
              THEN /\ last_price' = out.px
                   /\ last_ts_ms' = out.ts
                   /\ candles' = _update_candle(candles, out.px, out.cts, 0)
              ELSE UNCHANGED <<last_price, last_ts_ms, candles>>
           /\ ws' = IF out.err THEN "ERROR" ELSE ws
           /\ subscribed' = IF out.err THEN {} ELSE subscribed
           /\ ev' = Event("msg", IsAccepted(msg), IsNonPositive(msg), out.pub)
    /\ UNCHANGED <<configVars, threads, _symbol_meta_cache, now, _last_ticks, backoff, tickLog, cresp, oresp>>
    /\ resp' = NoResp

\* one pass of `async for msg in ws` of app.py
RecvApp(msg, pid) ==
    /\ UNCHANGED subscribed
    /\ bridge = "app"
    /\ ws = "SUBSCRIBED"
    /\ WellShaped(msg)
    /\ LET p == app_ws_consume_msg(msg)
       IN  /\ _last_ticks' =
                 IF p = None THEN _last_ticks
                 ELSE [k \in DOMAIN _last_ticks \cup {pid} |->
                          IF k = pid THEN [price |-> p, ts |-> now]
                          ELSE _last_ticks[k]]
           /\ ev' = Event("msg", IsAccepted(msg), IsNonPositive(msg), p # None)
    /\ UNCHANGED <<configVars, threads, _symbol_meta_cache, now, priceVars, candles, feedVars, wsVars, tickLog, cresp, oresp>>
    /\ resp' = NoResp

\* ws_hitbtc.py 295-306, one round of _keepalive_loop
Heartbeat ==
    /\ UNCHANGED subscribed
    /\ bridge = "ws_hitbtc"
    /\ IF last_price = None
       THEN UNCHANGED <<candles, last_ts_ms>>
       ELSE /\ candles' = _update_candle(candles, last_price, now, 0)
            /\ last_ts_ms' = IF HEARTBEAT_TOUCH_TS THEN now ELSE last_ts_ms
    /\ ev' = Event("heartbeat", FALSE, FALSE, FALSE)
    /\ UNCHANGED <<configVars, threads, _symbol_meta_cache, now, last_price, feedVars, _last_ticks, wsVars,
                   tickLog, cresp, oresp>>
    /\ resp' = NoResp

Tick(t) ==
    /\ UNCHANGED subscribed
    /\ t > now
    /\ now' = t
    /\ ev' = NoEvent
    /\ UNCHANGED <<configVars, threads, _symbol_meta_cache, priceVars, candles, feedVars, _last_ticks, wsVars,
                   tickLog>>
    /\ resp' = NoResp
    /\ cresp' = NoQuery
    /\ UNCHANGED oresp

is_stale(age_ms, threshold) == age_ms > threshold

\* GET /price: bridge_ws.py 286-298, ws_binance.py 320-326, ws_hitbtc.py 337-350
price_ws ==
    [error |-> "none",
     price |-> IF bridge \in {"bridge_ws_binance", "bridge_ws_hitbtc"}
               THEN (IF last_price # None THEN last_price ELSE 0)
               ELSE (IF Truthy(last_price) THEN last_price ELSE 0),
     ts    |-> last_ts_ms,
     stale |-> IF last_ts_ms = None THEN TRUE
               ELSE is_stale(Max(0, now - last_ts_ms), STALE_MS)]

\* GET /price: app.py 420-428
price_app(pid) ==
    IF pid \notin DOMAIN _last_ticks
    THEN [error |-> "no_tick", price |-> None, ts |-> None, stale |-> FALSE]
    ELSE [error |-> "none",
          price |-> _last_ticks[pid].price,
          ts    |-> _last_ticks[pid].ts,
          stale |-> is_stale(now - _last_ticks[pid].ts, WS_STALE_SEC * 1000)]

price(pid) == IF bridge = "app" THEN price_app(pid) ELSE price_ws

GetPrice(pid) ==
    /\ UNCHANGED subscribed
    /\ resp' = price(pid)
    /\ ev' = NoEvent
    /\ UNCHANGED <<configVars, threads, _symbol_meta_cache, now, priceVars, candles, feedVars, _last_ticks,
                   wsVars, tickLog, cresp, oresp>>

Next ==
    \/ Connect
    \/ ConnectOk
    \/ ConnectFail
    \/ ConnLost
    \/ ClosedOk
    \/ Sleep
    \/ \E msg \in Messages : Recv(msg)
    \/ \E msg \in Messages, pid \in Products : RecvApp(msg, pid)
    \/ Heartbeat
    \/ \E t \in ClockTimes : Tick(t)
    \/ \E pid \in Products : GetPrice(pid)

Spec == Init /\ [][Next]_vars

----------------------------------------------------------------------------
(* Claims about the candle store *)

RECURSIVE SumVol(_)
SumVol(log) == IF log = <<>> THEN 0 ELSE log[1].vol + SumVol(Tail(log))

LogPrices == {tickLog[i].px : i \in 1..Len(tickLog)}
\* floor(timestamp / width) of every call so far
LogMinutes == {tickLog[i].ts \div MINUTE_MS : i \in 1..Len(tickLog)}
LogBuckets == {_minute_start(tickLog[i].ts) : i \in 1..Len(tickLog)}

\* C1: after any sequence of ticks that all fall in one bucket the store holds
\* exactly one candle, keyed by that bucket, with open = the first price,
\* high = the largest, low = the smallest, close = the last price and
\* volume = the sum of the volumes.
C1_OneBucketCandle ==
    (tickLog # <<>> /\ Cardinality(LogMinutes) = 1) =>
        /\ DOMAIN candles = {_minute_start(tickLog[1].ts)}
        /\ candles[_minute_start(tickLog[1].ts)] =
              [o |-> tickLog[1].px,
               h |-> SetMax(LogPrices),
               l |-> SetMin(LogPrices),
               c |-> tickLog[Len(tickLog)].px,
               v |-> SumVol(tickLog)]

\* The scenario of the specification: (t=0, 100), (t=30, 105), (t=59, 95).
C1_Witness ==
    /\ tickLog = <<[px |-> 100, ts |-> 0, vol |-> 0],
                   [px |-> 105, ts |-> 59000, vol |-> 0],
                   [px |-> 95, ts |-> 59000, vol |-> 0]>>
    /\ DOMAIN candles = {0}
    /\ candles[0] = [o |-> 100, h |-> 105, l |-> 95, c |-> 95, v |-> 0]

\* C3: once _update_candle has returned the store holds at most cap buckets,
\* and every bucket that was inserted and is gone is older than every
\* bucket that is kept.
C3_CapKeepsNewest ==
    /\ Cardinality(DOMAIN candles) <= MaxMinutes
    /\ DOMAIN candles \subseteq LogBuckets
    /\ \A e \in LogBuckets \ DOMAIN candles : \A r \in DOMAIN candles : e < r

\* More than cap distinct buckets were inserted, the oldest one last.
C3_Witness ==
    /\ Cardinality(LogBuckets) > MaxMinutes
    /\ Len(tickLog) > 1
    /\ _minute_start(tickLog[Len(tickLog)].ts) \notin DOMAIN candles
    /\ Cardinality(DOMAIN candles) = MaxMinutes

\* C2: in every reachable state every candle of the store has
\* low <= min(open, close) and high >= max(open, close), whatever the
\* interleaving of streaming updates and heartbeat updates.
C2_CandleBounds ==
    \A m \in DOMAIN candles :
        /\ candles[m].l <= Min(candles[m].o, candles[m].c)
        /\ candles[m].h >= Max(candles[m].o, candles[m].c)

\* A heartbeat has just folded the last price into a candle that streaming
\* ticks of two different prices made.
C2_Witness ==
    /\ ev.kind = "heartbeat"
    /\ _minute_start(now) \in DOMAIN candles
    /\ candles[_minute_start(now)].l < candles[_minute_start(now)].h

----------------------------------------------------------------------------
(* Claims about the published price and its staleness *)

Threshold == IF bridge = "app" THEN WS_STALE_SEC * 1000 ELSE STALE_MS

\* C4: a /price response reports stale = true exactly when
\* now - last_update_time > threshold, and right after a message whose tick
\* was accepted and published /price reports stale = false.
C4_StaleIffOlderThanThreshold ==
    /\ (resp # NoResp /\ resp.error = "none" /\ resp.ts # None) =>
           (resp.stale <=> now - resp.ts > Threshold)
    /\ (ev.kind = "msg" /\ ev.accepted /\ ev.published) =>
           \A pid \in Products : ~price(pid).stale

\* C5: a step that processes a message carrying no tick at all (no positive
\* price and no price <= 0 either) leaves the last price and
\* last_update_time unchanged.
C5_NoTickNoAdvance ==
    [][(ev'.kind = "msg" /\ ~ev'.accepted /\ ~ev'.nonpos) =>
           UNCHANGED <<last_price, last_ts_ms>>]_vars

\* C6: whenever a message step publishes, the published price is the preferred
\* channel's latest accepted value if that channel's latest update is within
\* the recency window, and otherwise the fallback channel's latest value if
\* it has one.  (ws_binance.py: the preferred channel is the trade stream and
\* its latest accepted tick is the one of this message, or else the cached
\* one when that is positive; ws_hitbtc.py: the preferred channel is the
\* order book, whose cache holds accepted ticks only.)
C6_PublishesPreferredIfFresh ==
    [][\A msg \in Messages :
          (Recv(msg) /\ ev'.published) =>
             CASE bridge = "ws_binance" ->
                    LET accTrade == msg.kind = "tick" /\ msg.ch = "trade" /\ IsAccepted(msg)
                        known    == accTrade \/ last_trade_px = None \/ last_trade_px > 0
                        prefPx   == IF accTrade THEN msg.px ELSE last_trade_px
                        prefTs   == IF accTrade THEN now ELSE last_trade_ts
                    IN  known =>
                          IF prefPx # None /\ now - prefTs <= TRADE_STALL_MS
                          THEN last_price' = prefPx
                          ELSE (last_mid_px' # None => last_price' = last_mid_px')
               [] bridge = "ws_hitbtc" ->
                    IF last_mid_px' # None /\ now - last_mid_ts' <= TRADE_STALL_MS
                    THEN last_price' = last_mid_px'
                    ELSE (_last_last_px' # None => last_price' = _last_last_px')
               [] OTHER -> TRUE]_vars

\* C7: a step that processes a tick with a price <= 0 raises no error and
\* leaves the published price, its timestamp and every candle unchanged, and
\* no published price is ever <= 0.
C7_NonPositiveIgnored ==
    /\ [][(ev'.kind = "msg" /\ ev'.nonpos) =>
              /\ ws' = ws
              /\ UNCHANGED <<last_price, last_ts_ms, candles, _last_ticks>>]_vars
    /\ [](/\ last_price # None => last_price > 0
          /\ \A pid \in DOMAIN _last_ticks : _last_ticks[pid].price > 0)

\* C8: while no tick has been accepted, every /price response has price 0
\* and stale = true.
C8_NoTickZeroStale ==
    (resp # NoResp /\ NoTickYet) =>
        (resp.error = "none" /\ resp.price = 0 /\ resp.stale)

\* C9: a heartbeat never changes the last price or last_update_time, and once
\* /price reports stale it keeps reporting stale through every step that
\* processes no message (heartbeats, the clock, the reconnection loop).
C9_StaleUntilNextTick ==
    [][/\ ev'.kind = "heartbeat" => UNCHANGED <<last_price, last_ts_ms>>
       /\ \A pid \in Products :
             (price(pid).error = "none" /\ price(pid).stale /\ ev'.kind # "msg")
                => (price(pid).stale)']_vars

----------------------------------------------------------------------------
(* Claims about the reconnection loop *)

\* C10: in every reachable state the backoff is one of 1, 2, 4, ... doubled
\* from the initial value and cut at the cap, so it lies between the initial
\* value and the cap (15 s, or 30 s in app.py), and so does every sleep.
C10_BackoffWithinCap ==
    /\ INITIAL_BACKOFF <= backoff /\ backoff <= BACKOFF_CAP
    /\ backoff \in {Min(INITIAL_BACKOFF * 2^k, BACKOFF_CAP) : k \in 0..5}

\* The loop sleeps for the cap: the fifth failure in a row (the sixth in app.py).
C10_Witness ==
    /\ ws = "ERROR"
    /\ backoff = BACKOFF_CAP

\* C11: whenever the loop is subscribed the backoff is the initial value, so
\* a failure that follows a successful connection sleeps the initial delay.
C11_ResetOnConnect ==
    [][/\ ws' = "SUBSCRIBED" => backoff' = INITIAL_BACKOFF
       /\ (ws = "SUBSCRIBED" /\ ws' = "ERROR") => backoff' = INITIAL_BACKOFF]_vars

\* The loop sleeps the initial delay after a connection that delivered a
\* tick was lost.
C11_Witness ==
    /\ ws = "ERROR"
    /\ backoff = INITIAL_BACKOFF
    /\ ~NoTickYet

\* C12: a message is processed only on a connection on which every channel
\* of the pipeline has been subscribed.
C12_SubscribedBeforeRecv ==
    [][ev'.kind = "msg" => (ws = "SUBSCRIBED" /\ Channels \subseteq subscribed)]_vars

\* A message has been processed on a connection that carries two
\* subscriptions.
C12_Witness ==
    /\ ev.kind = "msg"
    /\ ws = "SUBSCRIBED"
    /\ Cardinality(subscribed) = 2
    /\ subscribed = Channels

\* C13: the task never stops, and whenever the connection goes away it sleeps
\* the backoff before the next attempt: the loop leaves SUBSCRIBED only for
\* the sleeping state, the sleep always ends and the next attempt always
\* follows.
C13_RetriesForever ==
    /\ [][(ws = "SUBSCRIBED" /\ ws' # "SUBSCRIBED") => ws' = "ERROR"]_vars
    /\ [](ws = "ERROR" => ENABLED Sleep)
    /\ [](ws = "DISCONNECTED" => ENABLED Connect)

\* C14: the loop only moves DISCONNECTED -> CONNECTING -> SUBSCRIBED -> ERROR
\* -> DISCONNECTED, or CONNECTING -> ERROR; messages are processed only while
\* SUBSCRIBED.
C14_Lifecycle ==
    [][/\ \/ ws' = ws
          \/ <<ws, ws'>> \in {<<"DISCONNECTED", "CONNECTING">>,
                              <<"CONNECTING", "SUBSCRIBED">>,
                              <<"CONNECTING", "ERROR">>,
                              <<"SUBSCRIBED", "ERROR">>,
                              <<"ERROR", "DISCONNECTED">>}
       /\ ev'.kind = "msg" => ws = "SUBSCRIBED"]_vars

\* a message that is not JSON, not a JSON object, whose data is no object,
\* or a tick with a non-numeric field or with no price field at all
Malformed(msg) ==
    \/ msg.kind \in {"nonjson", "nondict", "baddata"}
    \/ /\ msg.kind = "tick"
       /\ \/ Bad \in {msg.px, msg.a, msg.b, msg.t}
          \/ (msg.px = None /\ msg.a = None /\ msg.b = None)

\* C15: a step that processes a malformed message leaves the published
\* price, its timestamp and the candles unchanged and keeps the loop
\* SUBSCRIBED.
C15_MalformedDropped ==
    [][\A msg \in Messages :
          (Malformed(msg) /\ (Recv(msg) \/ \E pid \in Products : RecvApp(msg, pid))) =>
             /\ ws' = "SUBSCRIBED"
             /\ UNCHANGED <<last_price, last_ts_ms, candles, _last_ticks>>]_vars

----------------------------------------------------------------------------
(* bridge_ws.py: GET /candles over the in-memory store *)

Granularities == {"ONE_MINUTE", "one_minute", "FIVE_MINUTE"}
QueryLimits   == {0, 1, 2, 1001}
QueryStarts   == {None, 60}
QueryEnds     == {None, 60}

\* str.upper() on the granularities asked for
upper(g) == IF g = "one_minute" THEN "ONE_MINUTE" ELSE g

CandleJson(cs, m) ==
    [start |-> m, open |-> cs[m].o, high |-> cs[m].h, low |-> cs[m].l,
     close |-> cs[m].c, volume |-> cs[m].v]

\* the loop of candles_endpoint without its `count >= limit: break`
candles_endpoint_no_break(cs, granularity, limit, start, end, t_ms) ==
    IF limit < 1 \/ limit > 1000 THEN [status |-> 422, out |-> <<>>]
    ELSE IF upper(granularity) # "ONE_MINUTE" THEN [status |-> 200, out |-> <<>>]
    ELSE LET all_minutes == sorted(DOMAIN cs)
             e == IF end = None THEN t_ms \div 1000 ELSE end
             st == IF start = None THEN e - (limit * 60) - 5 ELSE start
             kept == SelectSeq(all_minutes, LAMBDA m : ~(m < st \/ m > e))
         IN  [status |-> 200,
              out |-> [i \in 1..Len(kept) |-> CandleJson(cs, kept[i])]]

\* limit: Query(ge=1, le=1000) answers 422 outside the range; the minutes are
\* walked in ascending order, those outside [start, end] skipped, and the walk
\* stops once `limit` candles are in the answer.
candles_endpoint(cs, granularity, limit, start, end, t_ms) ==
    IF limit < 1 \/ limit > 1000 THEN [status |-> 422, out |-> <<>>]
    ELSE IF upper(granularity) # "ONE_MINUTE" THEN [status |-> 200, out |-> <<>>]
    ELSE LET all_minutes == sorted(DOMAIN cs)
         IN  IF all_minutes = <<>> THEN [status |-> 200, out |-> <<>>]
             ELSE LET e == IF end = None THEN t_ms \div 1000 ELSE end
                      st == IF start = None THEN e - (limit * 60) - 5 ELSE start
                      kept == SelectSeq(all_minutes, LAMBDA m : ~(m < st \/ m > e))
                      taken == Prefix(kept, limit)
                  IN  [status |-> 200,
                       out |-> [i \in 1..Len(taken) |-> CandleJson(cs, taken[i])]]

CandlesEndpoint(granularity, limit, start, end) ==
    /\ bridge \in {"bridge_ws_binance", "bridge_ws_hitbtc"}
    /\ LET r == candles_endpoint(candles, granularity, limit, start, end, now)
       IN  cresp' = [granularity |-> granularity, start |-> start, end |-> end,
                     limit |-> limit, status |-> r.status, out |-> r.out]
    /\ UNCHANGED <<configVars, threads, _symbol_meta_cache, now, priceVars, candles, feedVars, _last_ticks,
                   wsVars, subscribed, ev, resp, tickLog, oresp>>

\* bridge_ws.py calls _update_candle(px, ts_ms, 0.0); the ticks stored are
\* stamped no later than the clock the query reads.
QueryPrices == {100, 105}
QueryTimes  == {0, 60000, 120000}

InitQuery == InitCandle /\ bridge = "bridge_ws_hitbtc"

NextQuery ==
    \/ \E px \in QueryPrices, ts_ms \in QueryTimes :
          ts_ms <= now /\ UpdateCandle(px, ts_ms, 0)
    \/ \E t \in ClockTimes : Tick(t)
    \/ \E g \in Granularities, limit \in QueryLimits,
          start \in QueryStarts, end \in QueryEnds :
            CandlesEndpoint(g, limit, start, end)

SpecQuery == InitQuery /\ [][NextQuery]_vars

----------------------------------------------------------------------------
(* The REST side: order placement and cancellation *)

\* What one call to the exchange (an SDK method, or an HTTP request) comes to:
\* "ok"; "shape", the call convention is not the one this exchange version
\* takes (TypeError of an SDK method, a 4xx for the parameters); "transport",
\* the network or a timeout; "reject", a business rule of the exchange.
Outcomes  == {"ok", "shape", "transport", "reject"}
MaxCalls  == 2
CallOutcomes == [1..MaxCalls -> Outcomes]
Sides     == {"BUY", "SELL"}

\* app.py: the methods hasattr(client, ...) finds on the installed SDK
SdkMethods == {"market_order_sell", "place_market_order", "limit_order_buy",
               "limit_order_sell", "place_limit_order", "cancel_orders",
               "cancel_order"}
Sdks == {SdkMethods,
         {"market_order_sell", "limit_order_buy", "limit_order_sell", "cancel_orders"},
         {"place_market_order", "place_limit_order", "cancel_order"},
         {}}

\* one call: sizing is "quote" (notional), "base" (quantity) or "none"
Submit(fn, type, sizing, post_only) ==
    [fn |-> fn, type |-> type, sizing |-> sizing, post_only |-> post_only,
     outcome |-> "none"]
Done(call, outcome) == [call EXCEPT !.outcome = outcome]

OrderResp(calls, code, ack, detail) ==
    [calls |-> calls, code |-> code, ack |-> ack, detail |-> detail]

\* `for fn in candidates: try: return fn() except Exception: continue`:
\* the candidates called, in order, up to the first that returns
FirstOk(outs, n) ==
    IF \E i \in 1..n : outs[i] = "ok"
    THEN SetMin({i \in 1..n : outs[i] = "ok"}) ELSE 0
Made(cands, outs) ==
    LET k == FirstOk(outs, Len(cands))
        n == IF k = 0 THEN Len(cands) ELSE k
    IN  [i \in 1..n |-> Done(cands[i], outs[i])]

\* app.py order_market: BUY is one call; SELL calls market_order_sell with
\* quote_size and, on any exception, reads the price and calls it again with
\* base_size; every exception that is left becomes a 400.
app_order_market(side, sdk, outs, price_ok) ==
    LET quote(fn) == Submit(fn, "market", "quote", FALSE)
        one(fn) ==
            IF outs[1] = "ok"
            THEN OrderResp(<<Done(quote(fn), "ok")>>, 200, "order", "none")
            ELSE OrderResp(<<Done(quote(fn), outs[1])>>, 400, "none", "exchange")
    IN  IF side = "BUY" THEN one("market_order_buy")
        ELSE IF "market_order_sell" \in sdk THEN
            LET c1 == Done(quote("market_order_sell"), outs[1])
                px == Submit("get_product", "price", "none", FALSE)
                c2 == Done(Submit("market_order_sell", "market", "base", FALSE), outs[2])
            IN  IF outs[1] = "ok" THEN OrderResp(<<c1>>, 200, "order", "none")
                ELSE IF ~price_ok
                THEN OrderResp(<<c1, Done(px, "transport")>>, 400, "none", "exchange")
                ELSE IF outs[2] = "ok"
                THEN OrderResp(<<c1, Done(px, "ok"), c2>>, 200, "order", "none")
                ELSE OrderResp(<<c1, Done(px, "ok"), c2>>, 400, "none", "exchange")
        ELSE IF "place_market_order" \in sdk THEN one("place_market_order")
        ELSE OrderResp(<< >>, 400, "none", "no_method")

\* ws_binance.py order_market: one POST with quoteOrderQty; _binance_signed_post
\* turns an HTTPError into a 400 that carries the exchange's code and message,
\* any other exception of urlopen leaves the handler (a 500).
binance_order_market(fields_ok, outs) ==
    LET c == Done(Submit("POST /api/v3/order", "market", "quote", FALSE), outs[1])
    IN  IF ~fields_ok THEN OrderResp(<< >>, 422, "none", "validation")
        ELSE IF outs[1] = "ok" THEN OrderResp(<<c>>, 200, "order", "none")
        ELSE IF outs[1] = "transport" THEN OrderResp(<<c>>, 500, "none", "internal")
        ELSE OrderResp(<<c>>, 400, "none", "exchange")

\* ws_hitbtc.py order_market: the quantity is quote_size / last_price and the
\* one POST carries it; no exception of _req is caught (a 500).
hitbtc_order_market(fields_ok, px, outs) ==
    LET c == Done(Submit("POST /api/3/spot/order", "market", "base", FALSE), outs[1])
    IN  IF ~fields_ok THEN OrderResp(<< >>, 422, "none", "validation")
        ELSE IF ~Truthy(px) \/ px <= 0 THEN OrderResp(<< >>, 503, "none", "no_price")
        ELSE IF outs[1] = "ok" THEN OrderResp(<<c>>, 200, "order", "none")
        ELSE OrderResp(<<c>>, 500, "none", "internal")

\* app.py order_limit_post_only: the candidates the SDK has, every one with
\* post_only=True, called in order until one returns.
app_limit_candidates(side, sdk) ==
    LET own == IF side = "BUY" THEN "limit_order_buy" ELSE "limit_order_sell"
    IN  (IF own \in sdk THEN <<Submit(own, "limit", "base", TRUE)>> ELSE << >>)
        \o (IF "place_limit_order" \in sdk
            THEN <<Submit("place_limit_order", "limit", "base", TRUE)>> ELSE << >>)
app_order_limit_post_only(side, sdk, outs) ==
    LET cands == app_limit_candidates(side, sdk)
        made == Made(cands, outs)
    IN  IF cands = << >> THEN OrderResp(<< >>, 400, "none", "no_method")
        ELSE IF made[Len(made)].outcome = "ok"
        THEN OrderResp(made, 200, "order", "none")
        ELSE OrderResp(made, 400, "none", "exchange")

\* ws_binance.py order_limit_post_only: one POST of type LIMIT_MAKER
binance_order_limit_post_only(fields_ok, outs, has_id) ==
    LET c == Done(Submit("POST /api/v3/order", "limit", "base", TRUE), outs[1])
    IN  IF ~fields_ok THEN OrderResp(<< >>, 422, "none", "validation")
        ELSE IF outs[1] = "ok"
        THEN IF has_id THEN OrderResp(<<c>>, 200, "order_id", "none")
             ELSE OrderResp(<<c>>, 502, "none", "no_id")
        ELSE IF outs[1] = "transport" THEN OrderResp(<<c>>, 500, "none", "internal")
        ELSE OrderResp(<<c>>, 400, "none", "exchange")

\* ws_hitbtc.py order_limit_post_only: one POST with timeInForce PO and
\* postOnly true; no exception of _req is caught
hitbtc_order_limit_post_only(fields_ok, positive, outs, has_id) ==
    LET c == Done(Submit("POST /api/3/spot/order", "limit", "base", TRUE), outs[1])
    IN  IF ~fields_ok THEN OrderResp(<< >>, 422, "none", "validation")
        ELSE IF ~positive THEN OrderResp(<< >>, 400, "none", "validation")
        ELSE IF outs[1] = "ok"
        THEN IF has_id THEN OrderResp(<<c>>, 200, "order_id", "none")
             ELSE OrderResp(<<c>>, 502, "none", "no_id")
        ELSE OrderResp(<<c>>, 500, "none", "internal")

\* app.py cancel_order: cancel_orders, then cancel_order, each under
\* `except Exception: pass`; with both failed the answer is still a 200.
app_cancel_candidates(sdk) ==
    (IF "cancel_orders" \in sdk
     THEN <<Submit("cancel_orders", "cancel", "none", FALSE)>> ELSE << >>)
    \o (IF "cancel_order" \in sdk
        THEN <<Submit("cancel_order", "cancel", "none", FALSE)>> ELSE << >>)
app_cancel_order(sdk, outs) ==
    LET cands == app_cancel_candidates(sdk)
        made == Made(cands, outs)
    IN  IF cands = << >> THEN OrderResp(<< >>, 400, "none", "no_method")
        ELSE IF made[Len(made)].outcome = "ok"
        THEN OrderResp(made, 200, "cancel_requested", "none")
        ELSE OrderResp(made, 200, "cancel_attempted", "none")

\* ws_binance.py order_cancel: _binance_signed_delete catches nothing
binance_order_cancel(outs) ==
    LET c == Done(Submit("DELETE /api/v3/order", "cancel", "none", FALSE), outs[1])
    IN  IF outs[1] = "ok" THEN OrderResp(<<c>>, 200, "ok_true", "none")
        ELSE OrderResp(<<c>>, 500, "none", "internal")

\* ws_hitbtc.py order_cancel: every exception of _cancel_order but an
\* HTTPException becomes a 502 "cancel failed: ..."
hitbtc_order_cancel(outs) ==
    LET c == Done(Submit("DELETE /api/3/spot/order", "cancel", "none", FALSE), outs[1])
    IN  IF outs[1] = "ok" THEN OrderResp(<<c>>, 200, "ok_true", "none")
        ELSE OrderResp(<<c>>, 502, "none", "exchange")

----------------------------------------------------------------------------
(* The REST side: the fills of an order and its summary *)

\* Decimal amounts, as exact fractions n/d in lowest terms (the quotients of
\* the model's amounts are far from the 28 digits of the Decimal context)
RECURSIVE GCD(_, _)
GCD(a, b) == IF b = 0 THEN a ELSE GCD(b, a % b)
Rat(n, d) == LET g == GCD(n, d) IN [n |-> n \div g, d |-> d \div g]
Dec(k)    == [n |-> k, d |-> 1]
RAdd(a, b) == Rat(a.n * b.d + b.n * a.d, a.d * b.d)
RMul(a, b) == Rat(a.n * b.n, a.d * b.d)
RDiv(a, b) == Rat(a.n * b.d, a.d * b.n)
RECURSIVE RSum(_)
RSum(seq) == IF seq = << >> THEN Dec(0) ELSE RAdd(seq[1], RSum(Tail(seq)))
\* a field the summary does not have
NotReported == [n |-> 0, d |-> 0]

\* A fill as the exchange reports it: price, size, fee; app.py also reads
\* size_in_quote and the order status the fill carries ("" when it has none)
MaxFills     == 2
FillPrices   == {100, 110}
FillSizes    == {1, 110}
FillFees     == {1}
FillStatuses == IF bridge = "app" THEN {"", "FILLED"} ELSE {""}
Fills ==
    [price : FillPrices, size : FillSizes, fee : FillFees,
     size_in_quote : IF bridge = "app" THEN BOOLEAN ELSE {FALSE},
     status : FillStatuses]
FillLists == UNION {[1..n -> Fills] : n \in 0..MaxFills}

Summary(status, filled_size, avg, value, fee) ==
    [status |-> status, filled_size |-> filled_size, avg |-> avg,
     value |-> value, fee |-> fee]

\* app.py get_order: a size in quote units is divided by the fill's price
BaseOfFillIgnoresFlag(f) == Dec(f.size)
BaseOfFill(f) ==
    IF f.size_in_quote
    THEN (IF f.price > 0 THEN RDiv(Dec(f.size), Dec(f.price)) ELSE Dec(0))
    ELSE Dec(f.size)
NotionalOfFill(f) ==
    IF f.size_in_quote THEN Dec(f.size) ELSE RMul(Dec(f.size), Dec(f.price))

\* app.py get_order: the fills the SDK returned ([] when every fills method
\* raised) folded into status, filled_size, average_filled_price and
\* commission_total_usd
app_get_order(fills) ==
    IF fills = << >>
    THEN Summary("UNKNOWN", Dec(0), Dec(0), NotReported, Dec(0))
    ELSE LET total_base == RSum([i \in 1..Len(fills) |-> BaseOfFill(fills[i])])
             total_notional == RSum([i \in 1..Len(fills) |-> NotionalOfFill(fills[i])])
             total_commission == RSum([i \in 1..Len(fills) |-> Dec(fills[i].fee)])
             with_st == {i \in 1..Len(fills) : fills[i].status # ""}
             status == IF with_st = {} THEN "UNKNOWN" ELSE fills[SetMax(with_st)].status
             avg_price == IF total_base.n > 0 THEN RDiv(total_notional, total_base)
                          ELSE Dec(0)
         IN  Summary(status, total_base, avg_price, NotReported, total_commission)

\* ws_binance.py / ws_hitbtc.py: the trades folded into filled_size,
\* executed_value and fill_fees; an empty or failed trades fetch leaves the
\* summary as it was built from the order
TradesValue(trades) ==
    RSum([i \in 1..Len(trades) |-> RMul(Dec(trades[i].size), Dec(trades[i].price))])
enrich(base, trades, fetch_ok, status_with_fills) ==
    IF ~fetch_ok \/ trades = << >> THEN base
    ELSE Summary(status_with_fills,
                 RSum([i \in 1..Len(trades) |-> Dec(trades[i].size)]),
                 NotReported,
                 TradesValue(trades),
                 RSum([i \in 1..Len(trades) |-> Dec(trades[i].fee)]))

\* the status the exchange reports for the order
ExStatuses ==
    IF bridge = "ws_hitbtc" THEN {"new", "partially_filled", "filled", "canceled"}
    ELSE {"NEW", "PARTIALLY_FILLED", "FILLED", "CANCELED"}
IsNew(st)     == st \in {"NEW", "new"}
IsPartial(st) == st \in {"PARTIALLY_FILLED", "partially_filled"}
IsFilled(st)  == st \in {"FILLED", "filled"}
IsCanceled(st) == st \in {"CANCELED", "canceled"}

\* ws_binance.py order_get / ws_hitbtc.py order_get: "open" for NEW and
\* PARTIALLY_FILLED, "done" otherwise; filled_size is the order's executed
\* quantity until the trades replace it
ws_order_get(ex_status, trades, fetch_ok) ==
    LET st == IF IsNew(ex_status) \/ IsPartial(ex_status) THEN "open" ELSE "done"
        executed == RSum([i \in 1..Len(trades) |-> Dec(trades[i].size)])
    IN  enrich(Summary(st, executed, NotReported, Dec(0), Dec(0)),
               trades, fetch_ok,
               IF IsFilled(ex_status) \/ IsCanceled(ex_status) THEN "done" ELSE st)

\* the summary a market order is answered with: "open" and zeros, "done" and
\* the sums once the trades fetch returned fills
ws_market_summary_raises(trades, fetch_ok) ==
    IF fetch_ok
    THEN enrich(Summary("open", Dec(0), NotReported, Dec(0), Dec(0)),
                trades, fetch_ok, "done")
    ELSE Summary("", NotReported, NotReported, NotReported, NotReported)
ws_market_summary(trades, fetch_ok) ==
    enrich(Summary("open", Dec(0), NotReported, Dec(0), Dec(0)),
           trades, fetch_ok, "done")

NoSummary == Summary("", NotReported, NotReported, NotReported, NotReported)

----------------------------------------------------------------------------
(* The REST side: balances *)

\* The entries of the accounts payload: currency, available amount, amount
\* on hold
MaxAccounts == 2
Assets      == {"BTC", "USD"}
Accounts    == [currency : Assets, available : {1, 2}, hold : {0, 1}]
AccountLists == UNION {[1..n -> Accounts] : n \in 0..MaxAccounts}

\* app.py _sum_available: the available_balance of every entry of the
\* currency is added up; "0" when the accounts could not be read
app_sum_available(accts_ok, accts, currency) ==
    IF ~accts_ok THEN 0
    ELSE LET hit == {i \in 1..Len(accts) : accts[i].currency = currency}
             RECURSIVE total(_)
             total(I) == IF I = {} THEN 0
                         ELSE accts[SetMin(I)].available + total(I \ {SetMin(I)})
         IN  total(hit)

\* ws_binance.py / ws_hitbtc.py _sum_available: the available_balance of the
\* first entry of the asset, "0" when there is none
ws_sum_available(accts, asset) ==
    LET hit == {i \in 1..Len(accts) : accts[i].currency = asset}
    IN  IF hit = {} THEN 0 ELSE accts[SetMin(hit)].available

----------------------------------------------------------------------------
(* The REST side: steps and the symbol metadata cache *)

\* Steps are decimal strings; "" is a field the payload does not have
StepProducts == {"BTC-USD", "ETH-USD"}
Overrides    == {"", "0", "0.5"}
\* what the exchange reports for a symbol: the base step (LOT_SIZE.stepSize,
\* quantity_increment, base_increment) and the quote step (from
\* quotePrecision, tick_size, quote_increment)
ExMetas == {[base |-> "0.001", quote |-> "0.01"],
            [base |-> "0",     quote |-> ""],
            [base |-> "",      quote |-> "0.01"]}

\* ws_binance.py _split_product / ws_hitbtc.py _split, on the products of
\* the model
BaseOf(pid)  == IF pid = "BTC-USD" THEN "BTC" ELSE "ETH"
QuoteOf(pid) == "USD"
\* _normalize_symbol: upper case without the dash; ws_binance.py appends a T
\* to a symbol that ends in USD
normalize_symbol(pid) ==
    IF bridge = "ws_binance"
    THEN (IF pid = "BTC-USD" THEN "BTCUSDT" ELSE "ETHUSDT")
    ELSE (IF pid = "BTC-USD" THEN "BTCUSD" ELSE "ETHUSD")

\* float(v) > 0 on the step strings of the model
PositiveStep(v) == v \notin {"", "0"}

\* the result of a cache read: the cache afterwards, the entry read (NoMeta
\* when the call raised), whether the exchange was called, whether it raised
NoMeta == [base |-> "", quote |-> ""]
MetaRead(cache, meta, fetched, raised) ==
    [cache |-> cache, meta |-> meta, fetched |-> fetched, raised |-> raised]

\* ws_binance.py _get_symbol_steps: a cached entry is returned as it is;
\* otherwise exchangeInfo is fetched (an exception of _http_get leaves the
\* function), a LOT_SIZE step other than "" and "0" and the quote step are
\* kept, "0" stands for a missing one, and the entry is cached
binance_fetch_symbol_steps(cache, key, ok, info) ==
    IF ~ok THEN MetaRead(cache, NoMeta, TRUE, TRUE)
    ELSE LET entry == [base  |-> IF PositiveStep(info.base) THEN info.base ELSE "0",
                       quote |-> IF info.quote # "" THEN info.quote ELSE "0"]
         IN  MetaRead([k \in DOMAIN cache \cup {key} |->
                          IF k = key THEN entry ELSE cache[k]],
                      entry, TRUE, FALSE)
binance_get_symbol_steps(cache, key, ok, info) ==
    IF key \in DOMAIN cache THEN MetaRead(cache, cache[key], FALSE, FALSE)
    ELSE binance_fetch_symbol_steps(cache, key, ok, info)

\* ws_hitbtc.py _get_symbol_meta: a cached entry is returned as it is;
\* otherwise the symbol is fetched and quantity_increment and tick_size are
\* cached; when the fetch raises, {} is cached and returned
hitbtc_fetch_symbol_meta(cache, key, ok, info) ==
    LET entry == IF ok THEN [base |-> info.base, quote |-> info.quote] ELSE NoMeta
    IN  MetaRead([k \in DOMAIN cache \cup {key} |->
                     IF k = key THEN entry ELSE cache[k]],
                 entry, TRUE, FALSE)
hitbtc_get_symbol_meta_uncached(cache, key, ok, info) ==
    hitbtc_fetch_symbol_meta(cache, key, ok, info)
hitbtc_get_symbol_meta(cache, key, ok, info) ==
    IF key \in DOMAIN cache THEN MetaRead(cache, cache[key], FALSE, FALSE)
    ELSE hitbtc_fetch_symbol_meta(cache, key, ok, info)

\* ws_hitbtc.py _env_step: the override if it is a positive number, else None
env_step(v) == IF PositiveStep(v) THEN v ELSE ""

Pick(which, pair) == IF which = "base" THEN pair.base ELSE pair.quote

\* the step part of balance_base / balance_quote: the step returned, the
\* cache afterwards, whether the exchange was called and whether that raised
\* ws_binance.py: step = BASE_STEP_FALLBACK or base_step or "0", after
\* _get_symbol_steps returned
binance_step(cache, key, which, ok, info) ==
    LET r == binance_get_symbol_steps(cache, key, ok, info)
        override == IF which = "base" THEN BASE_STEP ELSE QUOTE_STEP
        found == Pick(which, r.meta)
    IN  [step |-> IF r.raised THEN ""
                  ELSE IF override # "" THEN override
                  ELSE IF found # "" THEN found ELSE "0",
         cache |-> r.cache, fetched |-> r.fetched, raised |-> r.raised]
\* ws_hitbtc.py: _env_step first, the metadata only when it gave None
hitbtc_step(cache, key, which, ok, info) ==
    LET override == env_step(IF which = "base" THEN BASE_STEP ELSE QUOTE_STEP)
        r == hitbtc_get_symbol_meta(cache, key, ok, info)
        found == Pick(which, r.meta)
    IN  IF override # ""
        THEN [step |-> override, cache |-> cache, fetched |-> FALSE, raised |-> FALSE]
        ELSE [step |-> IF PositiveStep(found) THEN found ELSE "0",
              cache |-> r.cache, fetched |-> r.fetched, raised |-> FALSE]
\* app.py _product_symbols_and_steps: the increment of the product payload,
\* "0" for a missing one; nothing is cached
app_step(cache, which, info) ==
    LET found == Pick(which, info)
    IN  [step |-> IF found # "" THEN found ELSE "0",
         cache |-> cache, fetched |-> TRUE, raised |-> FALSE]

OrderBridges == {"app", "ws_binance", "ws_hitbtc"}

Answer(op, req, r, body) ==
    [op |-> op, req |-> req, calls |-> r.calls, code |-> r.code, ack |-> r.ack,
     detail |-> r.detail, body |-> body]

RestUnchanged ==
    UNCHANGED <<configVars, threads, _symbol_meta_cache, now, priceVars, candles, feedVars, _last_ticks,
                wsVars, subscribed, ev, resp, tickLog, cresp>>

\* Bound of the model: one REST request is answered in a behaviour. The
\* handlers keep nothing from one request to the next, so a second request
\* is answered as a first one is.
NoRequestYet == oresp = NoOrder

\* _binance_signed, _binance_signed_post, _binance_signed_delete, _req: the
\* first statement raises a 401 when the key or the secret is not set; r is
\* what the handler answers otherwise, reached whether it comes to its first
\* signed call. app.py hands its keys to the SDK.
signed_unchecked(reached, r) == r
signed(reached, r) ==
    IF bridge # "app" /\ ~API_KEY /\ reached
    THEN OrderResp(<< >>, 401, "none", "auth") ELSE r

\* what hasattr finds matters to app.py only
SdkOf(sdk) == IF bridge = "app" THEN sdk ELSE {}

\* the trades of a market order just placed
MarketTrades == {<< >>, <<[price |-> 100, size |-> 1, fee |-> 1,
                          size_in_quote |-> FALSE, status |-> ""]>>}

\* POST /order/market
OrderMarket(side, sdk, outs, price_ok, fields_ok, trades, fetch_ok) ==
    /\ bridge \in OrderBridges
    /\ LET h == CASE bridge = "app" -> app_order_market(side, sdk, outs, price_ok)
                  [] bridge = "ws_binance" -> binance_order_market(fields_ok, outs)
                  [] bridge = "ws_hitbtc" ->
                        hitbtc_order_market(fields_ok, last_price, outs)
           r == signed(h.calls # << >>, h)
       IN  oresp' = Answer("market",
                           [side |-> side, sdk |-> SdkOf(sdk),
                            fetch_ok |-> bridge = "app" \/ fetch_ok], r,
                           IF bridge # "app" /\ r.code = 200
                           THEN ws_market_summary(trades, fetch_ok) ELSE NoSummary)
    /\ RestUnchanged

\* POST /order/limit_post_only
OrderLimitPostOnly(side, sdk, outs, fields_ok, positive, has_id) ==
    /\ bridge \in OrderBridges
    /\ LET h == CASE bridge = "app" -> app_order_limit_post_only(side, sdk, outs)
                  [] bridge = "ws_binance" ->
                        binance_order_limit_post_only(fields_ok, outs, has_id)
                  [] bridge = "ws_hitbtc"  ->
                        hitbtc_order_limit_post_only(fields_ok, positive, outs, has_id)
       IN  oresp' = Answer("limit_post_only", [side |-> side, sdk |-> SdkOf(sdk)],
                           signed(h.calls # << >>, h), NoSummary)
    /\ RestUnchanged

\* DELETE /order/{order_id}; terminal: the order was filled or canceled at
\* the exchange before the call, which the exchange answers as it likes
OrderCancel(terminal, sdk, outs) ==
    /\ bridge \in OrderBridges
    /\ LET h == CASE bridge = "app"        -> app_cancel_order(sdk, outs)
                  [] bridge = "ws_binance" -> binance_order_cancel(outs)
                  [] bridge = "ws_hitbtc"  -> hitbtc_order_cancel(outs)
       IN  oresp' = Answer("cancel", [terminal |-> terminal, sdk |-> SdkOf(sdk)],
                           signed(h.calls # << >>, h), NoSummary)
    /\ RestUnchanged

\* GET /order/{order_id}: fills are the fills the order has at the exchange,
\* ex_status the status the exchange reports; order_ok and fetch_ok say
\* whether the order and the fills could be read
OrderGet(ex_status, fills, order_ok, fetch_ok) ==
    /\ bridge \in OrderBridges
    /\ IsNew(ex_status) => fills = << >>
    /\ (IsPartial(ex_status) \/ IsFilled(ex_status)) => fills # << >>
    /\ LET r == signed(TRUE, IF bridge # "app" /\ ~order_ok
                             THEN OrderResp(<< >>, 500, "none", "internal")
                             ELSE OrderResp(<< >>, 200, "summary", "none"))
       IN  oresp' = Answer("get_order",
                [ex_status |-> ex_status, fills |-> fills, fetch_ok |-> fetch_ok],
                r,
                IF bridge = "app"
                THEN app_get_order(IF fetch_ok THEN fills ELSE << >>)
                ELSE IF r.code = 200 THEN ws_order_get(ex_status, fills, fetch_ok)
                ELSE NoSummary)
    /\ RestUnchanged

\* GET /balance/base, GET /balance/quote for product pid; which is "base"
\* or "quote". accts_ok: the accounts could be read; product_ok: the product
\* (app.py) or the symbol metadata could be read, and info is what it says.
\* app.py reads the product first (a 400 when that fails) and then sums the
\* accounts; ws_binance.py and ws_hitbtc.py read the accounts with a signed
\* call (401 without keys, no exception caught) and then resolve the step.
Balance(pid, which, accts, product_ok, accts_ok, info) ==
    /\ bridge \in OrderBridges
    /\ LET asset == IF which = "base" THEN BaseOf(pid) ELSE QuoteOf(pid)
           key == normalize_symbol(pid)
           st == CASE bridge = "app" -> app_step(_symbol_meta_cache, which, info)
                   [] bridge = "ws_binance" ->
                        binance_step(_symbol_meta_cache, key, which, product_ok, info)
                   [] bridge = "ws_hitbtc" ->
                        hitbtc_step(_symbol_meta_cache, key, which, product_ok, info)
           r == IF bridge = "app"
                THEN (IF product_ok THEN OrderResp(<< >>, 200, "balance", "none")
                      ELSE OrderResp(<< >>, 400, "none", "exchange"))
                ELSE signed(TRUE, IF ~accts_ok \/ st.raised
                                  THEN OrderResp(<< >>, 500, "none", "internal")
                                  ELSE OrderResp(<< >>, 200, "balance", "none"))
           resolved == bridge # "app" /\ r.code # 401 /\ accts_ok
       IN  /\ oresp' = Answer("balance",
                [pid |-> pid, which |-> which, asset |-> asset, accts |-> accts,
                 accts_ok |-> accts_ok, product_ok |-> product_ok, info |-> info],
                r,
                IF r.code # 200
                THEN [asset |-> asset, available |-> None, step |-> "",
                      fetched |-> resolved /\ st.fetched]
                ELSE [asset |-> asset,
                      available |->
                          IF bridge = "app"
                          THEN app_sum_available(accts_ok, accts, asset)
                          ELSE ws_sum_available(accts, asset),
                      step |-> st.step, fetched |-> st.fetched])
           /\ _symbol_meta_cache' = IF resolved THEN st.cache ELSE _symbol_meta_cache
    /\ UNCHANGED <<configVars, threads, now, priceVars, candles, feedVars, _last_ticks,
                   wsVars, subscribed, ev, resp, tickLog, cresp>>

\* GET /candles of the REST side, passed on to the exchange. The bounds and
\* the limit asked for: a bound is left out, given in seconds, or (the last)
\* given in milliseconds.
ProxyTimes  == {None, 60, 116, 200, 120000}
ProxyLimits == {0, 1, 350, 1001}

\* _to_ms of get_candles: a value up to the threshold is taken for seconds
to_ms(v) == IF v = None THEN None ELSE IF v <= SecondsBelow THEN v * 1000 ELSE v

NoUpstream == [sent |-> FALSE, start |-> None, end |-> None, limit |-> 0, unit |-> 1]

\* get_candles of ws_binance.py and ws_hitbtc.py at clock t (ms): the limit
\* is clamped, and the window goes upstream only when both bounds are there,
\* the end no later than t; a window that is empty then is a 400.
ws_get_candles(start, end, limit, t) ==
    LET st_ms == to_ms(start)
        et_ms == to_ms(end)
        lim == Max(1, Min(limit, 1000))
        both == st_ms # None /\ et_ms # None
        et == IF both /\ et_ms > t THEN t ELSE et_ms
    IN  IF both /\ st_ms >= et
        THEN [code |-> 400, up |-> NoUpstream]
        ELSE [code |-> 200,
              up |-> [sent |-> TRUE,
                      start |-> IF both THEN st_ms ELSE None,
                      end |-> IF both THEN et ELSE None,
                      limit |-> lim, unit |-> 1]]

\* candles of app.py at clock t (ms), for one-minute candles: the limit is
\* validated by Query(ge=1, le=350); the end is the one given, or the clock;
\* the start is the one given, or inferred from the end, and inferred again
\* when it is not before the end. Seconds go upstream.
app_candles(start, end, limit, t) ==
    LET sec == 60
        end_s == IF end # None THEN end ELSE t \div 1000
        start0 == IF start # None THEN start
                  ELSE end_s - sec * Max(1, Min(limit + 2, 350))
        start_s == IF start0 >= end_s
                   THEN end_s - sec * Max(1, Min(limit, 350)) ELSE start0
    IN  IF limit < 1 \/ limit > 350
        THEN [code |-> 422, up |-> NoUpstream]
        ELSE [code |-> 200,
              up |-> [sent |-> TRUE, start |-> start_s, end |-> end_s,
                      limit |-> limit, unit |-> 1000]]

\* GET /candles with the bounds and the limit asked for; upstream_ok: the
\* exchange answered. No signed call is made.
GetCandles(start, end, limit, upstream_ok) ==
    /\ bridge \in OrderBridges
    /\ LET h == IF bridge = "app" THEN app_candles(start, end, limit, now)
                ELSE ws_get_candles(start, end, limit, now)
           r == CASE h.code # 200 -> OrderResp(<< >>, h.code, "none", "validation")
                  [] h.code = 200 /\ upstream_ok ->
                        OrderResp(<< >>, 200, "candles", "none")
                  [] OTHER ->
                        OrderResp(<< >>, IF bridge = "app" THEN 400 ELSE 502,
                                  "none", "exchange")
       IN  oresp' = Answer("candles",
                [start |-> start, end |-> end, limit |-> limit, now |-> now],
                r, h.up)
    /\ RestUnchanged

\* the ticks that give the REST side a last price
OrderFeed == {msg \in Messages : msg.kind = "tick" /\ msg.px = 99 /\ msg.t = None
                                  /\ msg.a = None}

InitOrder ==
    /\ InitFeed /\ bridge \in OrderBridges /\ HEARTBEAT_TOUCH_TS = FALSE
    /\ _symbol_meta_cache = <<>>
    /\ BASE_STEP = "" /\ QUOTE_STEP = ""
    /\ API_KEY \in (IF bridge = "app" THEN {TRUE} ELSE BOOLEAN)

NextOrder ==
    \/ Connect
    \/ ConnectOk
    \/ \E msg \in OrderFeed : Recv(msg)
    \/ /\ NoRequestYet
       /\ \E side \in Sides, sdk \in Sdks, outs \in CallOutcomes,
             price_ok \in BOOLEAN, fields_ok \in BOOLEAN,
             trades \in MarketTrades, fetch_ok \in BOOLEAN :
               OrderMarket(side, sdk, outs, price_ok, fields_ok, trades, fetch_ok)
    \/ /\ NoRequestYet
       /\ \E side \in Sides, sdk \in Sdks, outs \in CallOutcomes,
             fields_ok \in BOOLEAN, positive \in BOOLEAN, has_id \in BOOLEAN :
               OrderLimitPostOnly(side, sdk, outs, fields_ok, positive, has_id)
    \/ /\ NoRequestYet
       /\ \E terminal \in BOOLEAN, sdk \in Sdks, outs \in CallOutcomes :
               OrderCancel(terminal, sdk, outs)
    \/ /\ NoRequestYet
       /\ \E ex_status \in ExStatuses, fills \in FillLists,
             order_ok \in BOOLEAN, fetch_ok \in BOOLEAN :
               OrderGet(ex_status, fills, order_ok, fetch_ok)
    \/ /\ NoRequestYet
       /\ \E pid \in Products, which \in {"base", "quote"}, accts \in AccountLists,
             product_ok \in BOOLEAN, accts_ok \in BOOLEAN, info \in ExMetas :
               Balance(pid, which, accts, product_ok, accts_ok, info)
    \/ /\ NoRequestYet
       /\ \E start \in ProxyTimes, end \in ProxyTimes, limit \in ProxyLimits,
             upstream_ok \in BOOLEAN :
               GetCandles(start, end, limit, upstream_ok)

SpecOrder == InitOrder /\ [][NextOrder]_vars

\* The balance requests of a process, one after another, with the step
\* overrides of its environment
StepAccounts == {<<[currency |-> "BTC", available |-> 1, hold |-> 0]>>}

InitStep ==
    /\ InitFeed /\ bridge \in OrderBridges /\ HEARTBEAT_TOUCH_TS = FALSE
    /\ _symbol_meta_cache = <<>>
    /\ BASE_STEP \in (IF bridge = "app" THEN {""} ELSE Overrides)
    /\ QUOTE_STEP \in (IF bridge = "app" THEN {""} ELSE Overrides)
    /\ API_KEY \in (IF bridge = "app" THEN {TRUE} ELSE BOOLEAN)

NextStep ==
    \E pid \in StepProducts, which \in {"base", "quote"}, accts \in StepAccounts,
       product_ok \in BOOLEAN, accts_ok \in BOOLEAN, info \in ExMetas :
          Balance(pid, which, accts, product_ok, accts_ok, info)

SpecStep == InitStep /\ [][NextStep]_vars

----------------------------------------------------------------------------
(* The streaming task and the handler threads, statement by statement *)

\* ws_binance.py and ws_hitbtc.py run _ws_loop as a task of the event loop
\* and declare every path operation with `def`: the server runs such a
\* handler in a worker thread, not on the event loop. The two assignments
\* `last_price = ...; last_ts_ms = ...` of the task are two steps here, and
\* so are the reads of a handler; a thread may run between any two of them.
\* Bound of the model: a thread answers one request, and the balance
\* requests ask for the base step of one product.
ThreadBridges == {"ws_binance", "ws_hitbtc"}

\* the ticks that arrive: a trade or last price of 99, a book of 101 / 99
ThreadFeed ==
    {msg \in Messages :
        /\ msg.kind = "tick" /\ msg.t = None /\ WellShaped(msg)
        /\ \/ msg.px = 99 /\ msg.a = None
           \/ msg.px = None /\ msg.a = 101 /\ msg.b = 99}

\* _ws_loop, from the receive to `last_price = chosen_px` (ws_binance.py
\* 249-288, ws_hitbtc.py 216-280)
StreamWritePrice(msg) ==
    /\ bridge \in ThreadBridges
    /\ ws = "SUBSCRIBED"
    /\ threads.loop = "recv"
    /\ LET out == handle(msg)
       IN  /\ ~out.err
           /\ last_trade_px' = out.feed.trade_px
           /\ last_trade_ts' = out.feed.trade_ts
           /\ last_mid_px' = out.feed.mid_px
           /\ last_mid_ts' = out.feed.mid_ts
           /\ _last_last_px' = out.feed.last_px
           /\ _last_last_ts' = out.feed.last_ts
           /\ IF out.pub
              THEN /\ last_price' = out.px
                   /\ threads' = [threads EXCEPT
                                     !.loop = "wrote_price",
                                     !.pend = [ts |-> out.ts, cts |-> out.cts]]
              ELSE UNCHANGED <<last_price, threads>>
           /\ ev' = Event("msg", IsAccepted(msg), IsNonPositive(msg), out.pub)
    /\ UNCHANGED <<configVars, _symbol_meta_cache, now, last_ts_ms, candles,
                   _last_ticks, wsVars, subscribed, resp, tickLog, cresp, oresp>>

\* _ws_loop: `last_ts_ms = now_ms` and _update_candle (ws_binance.py 289-290,
\* ws_hitbtc.py 282-283)
StreamWriteTs ==
    /\ threads.loop = "wrote_price"
    /\ last_ts_ms' = threads.pend.ts
    /\ candles' = _update_candle(candles, last_price, threads.pend.cts, 0)
    /\ threads' = [threads EXCEPT
                      !.loop = "recv", !.pend = NoPend,
                      !.published = @ \cup {<<last_price, threads.pend.ts>>}]
    /\ UNCHANGED <<configVars, _symbol_meta_cache, now, last_price, feedVars,
                   _last_ticks, wsVars, subscribed, ev, resp, tickLog, cresp, oresp>>

ThreadUnchanged ==
    UNCHANGED <<configVars, now, priceVars, candles, feedVars, _last_ticks,
                wsVars, subscribed, ev, tickLog, cresp, oresp>>

\* price(): `if last_ts_ms is not None: age_ms = ...; stale = ...`
PriceReadStale ==
    /\ bridge \in ThreadBridges
    /\ threads.price.pc = "idle"
    /\ threads' = [threads EXCEPT !.price = [pc |-> "read_price",
                                             stale |-> price_ws.stale, px |-> None]]
    /\ UNCHANGED <<resp, _symbol_meta_cache>>
    /\ ThreadUnchanged

\* price(): `float(last_price) if last_price else 0.0`
PriceReadPrice ==
    /\ threads.price.pc = "read_price"
    /\ threads' = [threads EXCEPT !.price.pc = "read_ts",
                                  !.price.px = price_ws.price]
    /\ UNCHANGED <<resp, _symbol_meta_cache>>
    /\ ThreadUnchanged

\* price(): `"ts": last_ts_ms`, and the answer is returned
PriceReturn ==
    /\ threads.price.pc = "read_ts"
    /\ resp' = [error |-> "none", price |-> threads.price.px,
                ts |-> last_ts_ms, stale |-> threads.price.stale]
    /\ threads' = [threads EXCEPT !.price.pc = "returned"]
    /\ UNCHANGED _symbol_meta_cache
    /\ ThreadUnchanged

\* the step of a balance handler for the cache as the thread found it
thread_step(cache, key, which, ok, info) ==
    IF bridge = "ws_binance" THEN binance_step(cache, key, which, ok, info)
    ELSE hitbtc_step(cache, key, which, ok, info)

\* balance_base / balance_quote in thread w, up to `if key in
\* _symbol_meta_cache`: a cached entry answers the request, and otherwise
\* the thread goes on to ask the exchange
StepLookup(w, pid, which) ==
    /\ bridge \in ThreadBridges
    /\ threads.bal[w].pc = "idle"
    /\ LET key == normalize_symbol(pid)
       IN  threads' = [threads EXCEPT !.bal[w] =
              IF key \in DOMAIN _symbol_meta_cache
              THEN [pc |-> "returned", key |-> key, which |-> which,
                    step |-> thread_step(_symbol_meta_cache, key, which,
                                         TRUE, NoMeta).step]
              ELSE [pc |-> "fetching", key |-> key, which |-> which, step |-> ""]]
    /\ UNCHANGED <<resp, _symbol_meta_cache>>
    /\ ThreadUnchanged

\* the exchange has answered thread w (or the call raised): the entry is
\* written whatever the cache holds by now, and the request is answered
StepPopulate(w, ok, info) ==
    /\ threads.bal[w].pc = "fetching"
    /\ LET key == threads.bal[w].key
           seen == [k \in DOMAIN _symbol_meta_cache \ {key} |->
                       _symbol_meta_cache[k]]
           st == thread_step(seen, key, threads.bal[w].which, ok, info)
       IN  /\ _symbol_meta_cache' =
                 [k \in DOMAIN _symbol_meta_cache \cup DOMAIN st.cache |->
                     IF k \in DOMAIN st.cache THEN st.cache[k]
                     ELSE _symbol_meta_cache[k]]
           /\ threads' = [threads EXCEPT !.bal[w].pc = "returned",
                                         !.bal[w].step = st.step]
    /\ UNCHANGED resp
    /\ ThreadUnchanged

\* what the exchange reports for the product
ThreadMetas == {[base |-> "0.001", quote |-> "0.01"]}

InitThreads ==
    /\ InitFeed /\ bridge \in ThreadBridges /\ HEARTBEAT_TOUCH_TS = FALSE
    /\ RestStart

NextThreads ==
    \/ Connect
    \/ ConnectOk
    \/ \E t \in ClockTimes : Tick(t)
    \/ \E msg \in ThreadFeed : StreamWritePrice(msg)
    \/ StreamWriteTs
    \/ PriceReadStale
    \/ PriceReadPrice
    \/ PriceReturn
    \/ \E w \in Workers, pid \in Products : StepLookup(w, pid, "base")
    \/ \E w \in Workers, ok \in BOOLEAN, info \in ThreadMetas :
          StepPopulate(w, ok, info)

SpecThreads == InitThreads /\ [][NextThreads]_vars

----------------------------------------------------------------------------
(* Claims about replayed, re-delivered and late ticks *)

LastTick == tickLog[Len(tickLog)]

\* C16: applying the tick just applied once more, with volume 0, leaves the
\* store as it is; so it does any number of times.
C16_ReplayIdempotent ==
    (tickLog # <<>> /\ LastTick.vol = 0) =>
        _update_candle(candles, LastTick.px, LastTick.ts, 0) = candles

\* The same tick was applied twice in a row to a candle that an earlier tick
\* of another price had opened.
C16_Witness ==
    /\ Len(tickLog) = 3
    /\ tickLog[3] = tickLog[2]
    /\ LastTick.vol = 0
    /\ _minute_start(LastTick.ts) \in DOMAIN candles
    /\ candles[_minute_start(LastTick.ts)].o # LastTick.px

\* the store after tick i of the log is delivered once more, with volume 0
Redeliver(i) == _update_candle(candles, tickLog[i].px, tickLog[i].ts, 0)

OHLC(cs) == [m \in DOMAIN cs |-> <<cs[m].o, cs[m].h, cs[m].l, cs[m].c>>]

C18_PastCandlesFrozen ==
    [][\A m \in DOMAIN candles \cap DOMAIN candles' :
          (\E k \in DOMAIN candles : k > m) => candles'[m] = candles[m]]_vars

----------------------------------------------------------------------------
(* Claims about the candle range query *)

Answered == cresp.status = 200 /\ upper(cresp.granularity) = "ONE_MINUTE"
Starts   == [i \in 1..Len(cresp.out) |-> cresp.out[i].start]

\* C19: an answered range query holds only candles of the store whose
\* bucket start lies within the bounds asked for, in strictly ascending order
\* of bucket start, and no more of them than the limit, which is at most 1000.
C19_RangeAscendingCapped ==
    cresp.status = 200 =>
        /\ \A i \in 1..Len(cresp.out) :
              /\ Starts[i] \in DOMAIN candles
              /\ cresp.out[i] = CandleJson(candles, Starts[i])
              /\ cresp.start # None => cresp.start <= Starts[i]
              /\ cresp.end # None => Starts[i] <= cresp.end
        /\ \A i, j \in 1..Len(cresp.out) : i < j => Starts[i] < Starts[j]
        /\ Len(cresp.out) <= cresp.limit
        /\ cresp.limit <= 1000

\* A query from minute 60 with limit 1 over a store holding minutes 60 and 120
\* was answered with one candle.
C19_Witness ==
    /\ Answered
    /\ cresp.start = 60 /\ cresp.end = None /\ cresp.limit = 1
    /\ DOMAIN candles = {60, 120}
    /\ Len(cresp.out) = 1

\* the n largest bucket starts of the store, ascending
MostRecent(n) ==
    LET all == sorted(DOMAIN candles)
    IN  SubSeq(all, Len(all) - Min(n, Len(all)) + 1, Len(all))

\* C20: a query with no range and limit N is answered with the N most recent
\* buckets of the store, or with all of them if the store holds fewer.
C20_LatestN ==
    (Answered /\ cresp.start = None /\ cresp.end = None) =>
        Starts = MostRecent(cresp.limit)

\* C21: a query for one-minute candles over a store that holds nothing in the
\* range asked for is answered from a store seeded by a backfill: the answer
\* is never empty merely because the store is (the exchange holds history for
\* every minute the clock has passed).
C21_BackfillOnMiss ==
    [][(/\ cresp' # NoQuery /\ cresp'.status = 200
        /\ upper(cresp'.granularity) = "ONE_MINUTE"
        /\ candles = << >>)
       => (candles' # << >> /\ cresp'.out # << >>)]_vars

----------------------------------------------------------------------------
(* Claims about order placement and cancellation *)

Submissions == {i \in 1..Len(oresp.calls) : oresp.calls[i].type # "price"}

\* C22: in a market order request a call in base-quantity form is made only
\* after a call of the same request in notional form failed with a shape
\* mismatch.
C22_BaseOnlyAfterShapeMismatch ==
    oresp.op = "market" =>
        \A i \in Submissions :
            oresp.calls[i].sizing = "base" =>
                \E j \in Submissions :
                    /\ j < i
                    /\ oresp.calls[j].sizing = "quote"
                    /\ oresp.calls[j].outcome = "shape"

\* C23: a submission that fails on the transport or is rejected by the
\* exchange is the last call of its request, and the request is answered
\* with an error.
C23_RejectionEndsRequest ==
    oresp.op \in {"market", "limit_post_only", "cancel"} =>
        \A i \in Submissions :
            oresp.calls[i].outcome \in {"transport", "reject"} =>
                /\ i = Len(oresp.calls)
                /\ oresp.code # 200

\* the candidate calls of app.py for the request answered
Candidates ==
    IF oresp.op = "cancel" THEN app_cancel_candidates(oresp.req.sdk)
    ELSE app_limit_candidates(oresp.req.side, oresp.req.sdk)

\* C24: when the first candidate fails with a shape mismatch, the calls made
\* are the candidates in their order, each once, up to the first that
\* succeeds; the answer is that success, or an error if every one failed.
C24_CandidatesInOrderOnce ==
    (/\ bridge = "app" /\ oresp.op \in {"limit_post_only", "cancel"}
     /\ oresp.calls # << >> /\ oresp.calls[1].outcome = "shape") =>
        /\ Len(oresp.calls) <= Len(Candidates)
        /\ \A i \in 1..Len(oresp.calls) :
              /\ oresp.calls[i] = Done(Candidates[i], oresp.calls[i].outcome)
              /\ i < Len(oresp.calls) => oresp.calls[i].outcome # "ok"
        /\ IF oresp.calls[Len(oresp.calls)].outcome = "ok"
           THEN oresp.code = 200
           ELSE Len(oresp.calls) = Len(Candidates) /\ oresp.code # 200

\* C25: every call made for a limit_post_only request is a post-only limit
\* order, and when the exchange rejected one the caller receives that
\* rejection.
C25_PostOnlyAndRejectionSurfaced ==
    oresp.op = "limit_post_only" =>
        /\ \A i \in 1..Len(oresp.calls) :
              oresp.calls[i].type = "limit" /\ oresp.calls[i].post_only
        /\ (\E i \in 1..Len(oresp.calls) : oresp.calls[i].outcome = "reject") =>
              (oresp.code # 200 /\ oresp.detail = "exchange")

\* C28: the cancellation of an order that is already terminal is answered
\* without an error, by an acknowledgment that does not say the order was
\* canceled.
C28_CancelIdempotent ==
    (oresp.op = "cancel" /\ oresp.req.terminal /\ oresp.calls # << >>) =>
        (oresp.code = 200 /\ oresp.ack # "ok_true")

\* C29: a placement or a cancellation whose every call to the exchange failed
\* is answered with an error.
C29_FailedMutationSurfaced ==
    (/\ oresp.op \in {"market", "limit_post_only", "cancel"}
     /\ Submissions # {}
     /\ \A i \in Submissions : oresp.calls[i].outcome # "ok") =>
        oresp.code # 200

----------------------------------------------------------------------------
(* Claims about order summaries and balances *)

\* the size of a fill in base units, and the sums the summary is made of
SizeInBase(f) ==
    IF f.size_in_quote THEN RDiv(Dec(f.size), Dec(f.price)) ELSE Dec(f.size)
FilledSize(fs)  == RSum([i \in 1..Len(fs) |-> SizeInBase(fs[i])])
SizeTimesPrice(fs) ==
    RSum([i \in 1..Len(fs) |-> RMul(SizeInBase(fs[i]), Dec(fs[i].price))])
TotalFee(fs)    == RSum([i \in 1..Len(fs) |-> Dec(fs[i].fee)])

Summarised ==
    oresp.op = "get_order" /\ oresp.code = 200 /\ oresp.req.fetch_ok

Canon(st) ==
    CASE st \in {"done", "DONE", "FILLED"} -> "DONE"
      [] st \in {"open", "OPEN"}           -> "OPEN"
      [] OTHER                              -> "UNKNOWN"

\* C27: the status of the summary is DONE when the order has a fill or the
\* exchange reports it filled or canceled, OPEN when neither holds, and
\* UNKNOWN only when the order has no fill.
C27_StatusFromFills ==
    Summarised =>
        LET has_fill == oresp.req.fills # << >>
            terminal == IsFilled(oresp.req.ex_status) \/ IsCanceled(oresp.req.ex_status)
        IN  /\ (has_fill \/ terminal) => Canon(oresp.body.status) = "DONE"
            /\ ~(has_fill \/ terminal) => Canon(oresp.body.status) = "OPEN"
            /\ Canon(oresp.body.status) = "UNKNOWN" => ~has_fill

RECURSIVE SumAvailable(_, _)
SumAvailable(accts, asset) ==
    IF accts = << >> THEN 0
    ELSE (IF accts[1].currency = asset THEN accts[1].available ELSE 0)
         + SumAvailable(Tail(accts), asset)

\* C30: the balance of an asset is the sum of the available amounts of every
\* entry of that asset; amounts on hold are not part of it.
C30_BalanceSumsAllEntries ==
    (oresp.op = "balance" /\ oresp.code = 200 /\ oresp.req.accts_ok) =>
        oresp.body.available = SumAvailable(oresp.req.accts, oresp.req.asset)

----------------------------------------------------------------------------
(* Claims about steps and the symbol metadata cache *)

\* the balance request just answered, by a bridge that has overrides and a
\* cache, with the keys set and the accounts read
StepAsked ==
    /\ oresp.op = "balance" /\ bridge \in {"ws_binance", "ws_hitbtc"}
    /\ API_KEY /\ oresp.req.accts_ok
OverrideAsked == IF oresp.req.which = "base" THEN BASE_STEP ELSE QUOTE_STEP
KeyAsked == normalize_symbol(oresp.req.pid)
\* the exchange-reported step of the request's symbol, "" when none is known
KnownStep ==
    IF KeyAsked \in DOMAIN _symbol_meta_cache
    THEN Pick(oresp.req.which, _symbol_meta_cache[KeyAsked]) ELSE ""

\* C31: a step request is answered with the override when one is configured
\* (a positive number), else with the exchange-reported step when one is
\* known, else with "0".
C31_StepPrecedence ==
    StepAsked =>
        /\ PositiveStep(OverrideAsked) =>
              (oresp.code = 200 /\ oresp.body.step = OverrideAsked)
        /\ oresp.code = 200 =>
              oresp.body.step =
                  IF PositiveStep(OverrideAsked) THEN OverrideAsked
                  ELSE IF PositiveStep(KnownStep) THEN KnownStep ELSE "0"

\* The cache entries of a state are still there, as they were, in the next.
CacheKept ==
    \A k \in DOMAIN _symbol_meta_cache :
        k \in DOMAIN _symbol_meta_cache'
        /\ _symbol_meta_cache'[k] = _symbol_meta_cache[k]

C39_FailedFetchNotRemembered ==
    [][(/\ StepAsked /\ oresp.body.fetched /\ ~oresp.req.product_ok
        /\ oresp'.op = "balance" /\ oresp'.req.accts_ok /\ oresp'.req.product_ok
        /\ oresp'.req.pid = oresp.req.pid
        /\ (IF oresp'.req.which = "base" THEN BASE_STEP ELSE QUOTE_STEP) = ""
        /\ PositiveStep(Pick(oresp'.req.which, oresp'.req.info)))
       => /\ oresp'.body.fetched
          /\ oresp'.code = 200
          /\ oresp'.body.step = Pick(oresp'.req.which, oresp'.req.info)
      ]_vars

----------------------------------------------------------------------------
(* Claims about missing keys, reference prices and the fills fetch *)

\* the handler turned the request away before any signed call
TurnedAway(r) == r.detail \in {"validation", "no_price"}

\* C34: without the key or the secret, a request that comes to a signed call
\* is answered 401 with no call made to the exchange, and the published
\* price, the candles and the metadata cache stay as they are.
C34_MissingKeysFailTheCall ==
    [][(/\ oresp' # oresp /\ bridge \in {"ws_binance", "ws_hitbtc"}
        /\ ~API_KEY /\ ~TurnedAway(oresp') /\ oresp'.op # "candles")
       => /\ oresp'.code = 401
          /\ oresp'.calls = << >>
          /\ UNCHANGED <<last_price, last_ts_ms, candles, _symbol_meta_cache>>
      ]_vars

\* A market order was answered 401 by a bridge without keys that has a
\* published price and a candle.
C34_Witness ==
    /\ ~API_KEY /\ oresp.op = "market" /\ oresp.code = 401
    /\ last_price # None /\ candles # <<>>

\* C37: a market order that needs the quote notional turned into a base
\* quantity while no positive reference price is available is answered 503,
\* and no order is sent once the price was found missing.
C37_NoPriceNoOrder ==
    [][(oresp' # oresp /\ oresp'.op = "market") =>
          /\ (bridge = "ws_hitbtc" /\ oresp'.code # 422 /\ ~Truthy(last_price))
                => (oresp'.code = 503 /\ oresp'.calls = << >>)
          /\ \A i \in 1..Len(oresp'.calls) :
                (oresp'.calls[i].type = "price" /\ oresp'.calls[i].outcome # "ok")
                => (oresp'.code = 503 /\ i = Len(oresp'.calls))
      ]_vars

\* the market order just answered was acknowledged by the exchange, and the
\* fetch of its fills failed
AckedFetchFailed ==
    /\ oresp.op = "market" /\ bridge \in {"ws_binance", "ws_hitbtc"}
    /\ oresp.calls # << >> /\ oresp.calls[1].outcome = "ok"
    /\ ~oresp.req.fetch_ok

\* C38: a market order the exchange acknowledged, whose fills could not be
\* fetched, is answered 200 with status open, filled size 0, no executed
\* value and no fees, after one submission.
C38_FillsFetchFailureKeepsAck ==
    AckedFetchFailed =>
        /\ oresp.code = 200 /\ oresp.ack = "order"
        /\ oresp.body = Summary("open", Dec(0), NotReported, Dec(0), Dec(0))
        /\ Len(oresp.calls) = 1

C38_Witness == AckedFetchFailed /\ oresp.body.status = "open" /\ last_price # None

----------------------------------------------------------------------------
(* Claims about the two-channel streaming loops *)

\* the latest value of each channel of the loop: trade and midpoint in
\* ws_binance.py, midpoint and last trade price in ws_hitbtc.py
ChannelValues ==
    IF bridge = "ws_binance" THEN {last_trade_px, last_mid_px}
    ELSE {last_mid_px, _last_last_px}

-----------------------------------------------------------------------------
(* Claims about the candles passed on to the exchange *)

Upstream == oresp.body

\* both bounds were given and the start is not before the end, the end
\* brought back to the clock of the request
EmptyWindowAsked ==
    /\ oresp.req.start # None /\ oresp.req.end # None
    /\ to_ms(oresp.req.start) >= Min(to_ms(oresp.req.end), oresp.req.now)

\* C40: a candles request that goes upstream with a window has its start
\* before its end and its end no later than the clock; ws_binance.py and
\* ws_hitbtc.py answer a client error, with nothing sent upstream, when both
\* bounds are given and the start is not before the end brought back to the
\* clock; and the limit that goes upstream lies in 1..1000.
C40_UpstreamWindowWellFormed ==
    oresp.op = "candles" =>
        /\ (Upstream.sent /\ Upstream.start # None) =>
              /\ Upstream.start < Upstream.end
              /\ Upstream.end * Upstream.unit <= oresp.req.now
        /\ (bridge \in {"ws_binance", "ws_hitbtc"} /\ EmptyWindowAsked) =>
              (oresp.code = 400 /\ ~Upstream.sent)
        /\ Upstream.sent => Upstream.limit \in 1..1000

-----------------------------------------------------------------------------
(* Claims about the representation of monetary values *)

\* The representations a monetary value goes through on its way into an
\* answer or into a call to the exchange, the oldest first; the rounding of a
\* binary float is not modelled, only that the value was one.

\* last_price of the streaming loops: float(p), (float(a) + float(b)) / 2.0
feed_price_repr == <<"str", "float">>
\* ws_hitbtc.py order_market: Decimal(quote_size) / Decimal(str(px)), px the
\* last price, and str(qty) into the order
hitbtc_est_qty_repr == feed_price_repr \o <<"str", "Decimal", "str">>
\* app.py order_market: Decimal(quote_size) / _get_price(product_id), quantized
app_base_size_repr == <<"str", "Decimal", "str">>
\* ws_binance.py _get_symbol_steps: f"{1/(10**qp):.{qp}f}" for qp > 0
binance_quote_step_repr == <<"int", "float", "str">>
\* every other step is the exchange's or the environment's string
plain_step_repr == <<"str">>
\* fills: Decimal(str(...)) summed, multiplied and divided, then formatted
fills_repr == <<"str", "Decimal", "str">>
\* balances: app.py sums Decimal(str(value)); the other two hand a string on
balance_repr == IF bridge = "app" THEN <<"str", "Decimal", "str">> ELSE <<"str">>

ViaFloat(repr) == \E i \in 1..Len(repr) : repr[i] = "float"

\* the monetary values computed for the answer o
MoneyReprs(o) ==
    CASE o.op = "market" ->
            (IF bridge = "ws_hitbtc" /\ o.calls # << >>
             THEN {hitbtc_est_qty_repr} ELSE {})
            \cup (IF bridge = "app" /\ \E i \in 1..Len(o.calls) :
                                          o.calls[i].sizing = "base"
                  THEN {app_base_size_repr} ELSE {})
            \cup (IF bridge # "app" /\ o.code = 200 /\ o.req.fetch_ok
                  THEN {fills_repr} ELSE {})
      [] o.op = "get_order" /\ o.code = 200 -> {fills_repr}
      [] o.op = "balance" /\ o.code = 200 ->
            {balance_repr}
            \cup {IF /\ bridge = "ws_binance" /\ o.req.which = "quote"
                     /\ QUOTE_STEP = "" /\ o.body.step # "0"
                  THEN binance_quote_step_repr ELSE plain_step_repr}
      [] OTHER -> {}

\* C35: no monetary value of an answer (a balance sum, the base quantity
\* made from a quote notional, a fee total, a weighted average, a step) has
\* been a binary floating-point value on its way.
C35_ExactDecimalOnly ==
    \A repr \in MoneyReprs(oresp) : ~ViaFloat(repr)

-----------------------------------------------------------------------------
(* Claims about the streaming task and the handler threads *)

HandlerThreads == <<threads.price, threads.bal>>

\* the answer of /price carries a price and a timestamp of the same tick
SameTick ==
    (resp # NoResp /\ resp.error = "none" /\ resp.price # 0) =>
        <<resp.price, resp.ts>> \in threads.published

\* no two threads are asking the exchange for the same cache entry
OnePopulates ==
    \A v, w \in Workers :
        (/\ v # w /\ threads.bal[v].pc = "fetching" /\ threads.bal[w].pc = "fetching")
            => threads.bal[v].key # threads.bal[w].key

\* C33: no handler thread takes a step between the streaming task's write of
\* last_price and its write of last_ts_ms, so that an answer of /price never
\* pairs the price of one tick with the timestamp of another, and no two
\* balance handlers populate the same entry of the metadata cache at once.
C33_SingleLogicalThread ==
    /\ [][threads.loop = "wrote_price" => UNCHANGED HandlerThreads]_vars
    /\ [](SameTick /\ OnePopulates)

=============================================================================
